---------------------------- MODULE Spec2Model ----------------------------
(***************************************************************************)
(* Model of the real-time core of the pixel canvas server:                 *)
(*   - AuthService.refill_user_pixels          (auth_service.py)           *)
(*   - CanvasService                           (canvas_service.py)         *)
(*   - RegionManager                           (region_manager.py)         *)
(*   - websocket_endpoint                      (api/websocket.py)          *)
(*                                                                         *)
(* Every websocket connection is served by one coroutine on a single       *)
(* asyncio event loop.  A coroutine runs without interruption until it     *)
(* awaits real I/O: the next inbound message (receive_text) or an outbound *)
(* send (send_text).  The variable turn holds the coroutine that is        *)
(* running between two such points; it is None when every coroutine is     *)
(* suspended.  The awaits of CanvasService.place_pixel and of              *)
(* CanvasPersistence.save_pixel never reach real I/O and so never suspend. *)
(*                                                                         *)
(* The pending work of a coroutine is its stack of frames, top first: the  *)
(* loops of broadcast_to_region, disconnect_user, place_pixel and of the   *)
(* bulk handler that are suspended at a send, and what follows them.       *)
(*                                                                         *)
(* The persistence of user records is modelled by the number of tasks     *)
(* created by _save_users and by the dirty set with its flush task         *)
(* (enqueue_dirty, _schedule_dirty_flush, _flush_dirty_users); the flush   *)
(* task sleeps whole seconds and runs only in SpecPersist.                 *)
(*                                                                         *)
(* Left out: the rate limit of 60 actions a minute (never reached within   *)
(* the bounds), experience, coins and achievements with their _save_user   *)
(* calls (they do not touch the bag on these paths), the _save_user of a   *)
(* refill that granted tokens, chat, and the persistence queue of pixels.  *)
(***************************************************************************)
EXTENDS Integers, Sequences, FiniteSets, TLC

\* ------------------------------------------------------------ constants
CANVAS_SIZE == 8192
REGION_SIZE == 512
REGIONS_PER_SIDE == CANVAS_SIZE \div REGION_SIZE
PIXEL_REFILL_RATE == 3
MAX_PIXEL_BAG == 10
INITIAL_PIXEL_BAG == 3
MAX_BULK_DURATION_MS == 3000
DIRTY_FLUSH_THRESHOLD == 50
batch_size == 1000
XP_BASE == 50
DIRTY_FLUSH_DELAY == 1

\* ------------------------------------------------------------ bounds
MaxTime == 7       \* the clock stops advancing here (seconds)
MaxOps == 2        \* inbound client messages handled in one behaviour of Spec
MaxBusOps == 2     \* inbound client messages handled in one behaviour of SpecBus
MaxBulkLen == 2    \* longest bulk_pixel_place list
MaxBulkOps == 1    \* bulk_pixel_place messages handled in one behaviour of SpecBulk
MaxSubOps == 3     \* inbound client messages handled in one behaviour of SpecSub
MaxFlushOps == 2   \* inbound client messages handled in one behaviour of SpecFlush
MaxProtocolOps == 2  \* inbound client messages handled in one behaviour of SpecProtocol
MaxAtomicOps == 2  \* inbound client messages handled in one behaviour of SpecAtomic
MaxCanvasOps == 2  \* inbound client messages handled in one behaviour of SpecCanvas
MaxAccountOps == 3  \* calls on the user records in one behaviour of SpecAccount
MaxPairOps == 2    \* inbound client messages handled in one behaviour of SpecPair
MaxTwinOps == 4    \* connects, viewport messages and publishes in one behaviour of SpecTwin
MaxPending == 1002  \* pixels the queue of the canvas file may hold in SpecQueue
RecursionLimit == 12  \* frames a coroutine may nest (sys.getrecursionlimit)

None == "None"
NoTime == -1       \* a datetime field that is None

Users == {"u1", "u2"}

VARIABLES
  now,                 \* wall clock, whole seconds
  auth_users,          \* AuthService.users: username -> AuthenticatedUser
  regions,             \* CanvasService.regions, flattened: (x,y) -> Pixel
  region_connections,  \* RegionManager.region_connections
  user_regions,        \* RegionManager.user_regions (a dict: its domain varies)
  users,               \* UserService.users (a dict: its domain varies)
  alive,               \* whether a send on the user's websocket succeeds
  hs,                  \* websocket_endpoint coroutine: "new" before the
                       \* client connects, then "on", "closing", "off"
  stack,               \* its pending frames, top first
  turn,                \* the coroutine running now, or None
  inbox,               \* what each client was sent by broadcasts, in order
  last_sent,           \* the last message a coroutine sent on its own websocket
  result,              \* last return value of RegionManager.place_pixel
  ops,                 \* inbound messages handled so far
  nwrites,             \* successful CanvasService.place_pixel calls so far
  granted,             \* per user: sum of refill grants
  written,             \* per user: successful canvas writes
  initial,             \* per user: pixel_bag_size at start-up
  attempt,             \* the latest placement attempt: path, user, outcome
                       \* and the bag after its refill, before its consume
  placements,          \* per successful write, in order: who wrote, the
                       \* regions its update was addressed to, and who was
                       \* subscribed to the touched region at that moment
  subscribed,          \* per user: the region set of its latest
                       \* viewport_regions message, how many times in a row
                       \* it was sent, and nwrites at the latest of them
  dirty_users,         \* AuthenticationService._dirty_users
  dirty_flush_task,    \* AuthenticationService._dirty_flush_task
  saves,               \* tasks created by AuthenticationService._save_users
  saved,               \* how many of these tasks have run to their end
  db_errors,           \* the lines printed by the except clauses of the code
                       \* that writes user records and the canvas file
  lifespan,            \* "up" while the application serves, "down" once the
                       \* shutdown part of lifespan has completed
  pending_pixels       \* len(CanvasPersistence.pending_pixels): the pixels
                       \* queued for the next write of the canvas file

vars == <<now, auth_users, regions, region_connections, user_regions, users,
          alive, hs, stack, turn, inbox, last_sent, result, ops, nwrites, granted,
          written, initial, attempt, placements,
                 subscribed, dirty_users, dirty_flush_task, saves,
          saved, db_errors, lifespan, pending_pixels>>

\* ------------------------------------------------------------ helpers
Min(a, b) == IF a <= b THEN a ELSE b

\* dict without key k
Without(f, k) == [j \in DOMAIN f \ {k} |-> f[j]]

\* dict with f[k] = v (k added when missing)
With(f, k, v) == [j \in DOMAIN f \cup {k} |-> IF j = k THEN v ELSE f[j]]

\* ------------------------------------------------------------ resource bag
\* a refill that resets the anchor to the time of the call
refill_reset_anchor(u, t) ==
  LET pixels_to_add == (t - u.last_bag_refill_at) \div PIXEL_REFILL_RATE IN
    IF pixels_to_add <= 0 THEN u
    ELSE [u EXCEPT
           !.pixel_bag_size =
               Min(u.max_pixel_bag_size, u.pixel_bag_size + pixels_to_add),
           !.last_bag_refill_at = t]

\* a refill that takes a missing anchor for the start of the clock
refill_from_epoch(u, t) ==
  LET anchor == IF u.last_bag_refill_at = NoTime THEN 0 ELSE u.last_bag_refill_at
      pixels_to_add == (t - anchor) \div PIXEL_REFILL_RATE
  IN IF pixels_to_add <= 0 THEN [u EXCEPT !.last_bag_refill_at = anchor]
     ELSE [u EXCEPT
            !.pixel_bag_size =
                Min(u.max_pixel_bag_size, u.pixel_bag_size + pixels_to_add),
            !.last_bag_refill_at = anchor + pixels_to_add * PIXEL_REFILL_RATE]

\* AuthService.refill_user_pixels: the user record after the call
refill_user_pixels(u, t) ==
  IF u.last_bag_refill_at = NoTime
  THEN [u EXCEPT !.last_bag_refill_at = t]
  ELSE LET elapsed == t - u.last_bag_refill_at
           pixels_to_add == elapsed \div PIXEL_REFILL_RATE
       IN IF elapsed < PIXEL_REFILL_RATE \/ pixels_to_add <= 0
          THEN u
          ELSE [u EXCEPT
                 !.pixel_bag_size =
                     Min(u.max_pixel_bag_size, u.pixel_bag_size + pixels_to_add),
                 !.last_bag_refill_at =
                     u.last_bag_refill_at + pixels_to_add * PIXEL_REFILL_RATE]

\* AuthService.refill_user_pixels: its return value (gained)
refill_gained(u, t) == refill_user_pixels(u, t).pixel_bag_size - u.pixel_bag_size


\* ------------------------------------------------------------ canvas store
\* A JSON value that is no number: comparing it with an int raises TypeError
Malformed == -99999
\* stands for a key ("x" or "y") that an operation of a bulk list lacks
Absent == -88888

Center == <<REGIONS_PER_SIDE \div 2, REGIONS_PER_SIDE \div 2>>

\* The region keys the sample coordinates and viewports below can touch; the
\* other keys of the 16 x 16 grid keep their initial (empty) value throughout.
ModelRegions == {Center, <<Center[1], Center[2] + 1>>}

\* Sample coordinates: one in each model region, two out of bounds, one malformed
InCenter == <<4100, 4100>>
InNext == <<4100, 4700>>

\* CanvasService.is_valid_position
is_valid_position_inclusive(x, y) ==
  0 <= x /\ x <= CANVAS_SIZE /\ 0 <= y /\ y <= CANVAS_SIZE

is_valid_position(x, y) ==
  0 <= x /\ x < CANVAS_SIZE /\ 0 <= y /\ y < CANVAS_SIZE

\* CanvasService.get_region_coords
get_region_coords(x, y) == <<x \div REGION_SIZE, y \div REGION_SIZE>>

\* CanvasService.get_local_coords
get_local_coords_swapped(x, y) == <<y % REGION_SIZE, x % REGION_SIZE>>

get_local_coords(x, y) == <<x % REGION_SIZE, y % REGION_SIZE>>

\* CanvasService.place_pixel: "raise" | "false" | "true", and the store after it
place_outcome(regs, x, y) ==
  IF x = Malformed \/ y = Malformed THEN "raise"
  ELSE IF ~is_valid_position(x, y) THEN "false"
  ELSE IF get_region_coords(x, y) \notin DOMAIN regs THEN "raise"
  ELSE "true"

canvas_place_pixel_keep_first(regs, x, y, color, user_id) ==
  IF place_outcome(regs, x, y) # "true" THEN regs
  ELSE LET rc == get_region_coords(x, y)
           lc == get_local_coords(x, y)
       IN IF lc \in DOMAIN regs[rc] THEN regs
          ELSE [regs EXCEPT ![rc] = With(regs[rc], lc,
                  [x |-> x, y |-> y, color |-> color, user_id |-> user_id])]

canvas_place_pixel(regs, x, y, color, user_id) ==
  IF place_outcome(regs, x, y) # "true" THEN regs
  ELSE LET rc == get_region_coords(x, y)
           lc == get_local_coords(x, y)
       IN [regs EXCEPT ![rc] = With(regs[rc], lc,
              [x |-> x, y |-> y, color |-> color, user_id |-> user_id])]

\* CanvasService.is_valid_region
is_valid_region(region_x, region_y) ==
  /\ 0 <= region_x /\ region_x < REGIONS_PER_SIDE
  /\ 0 <= region_y /\ region_y < REGIONS_PER_SIDE

\* the key f"{local_x},{local_y}" of a pixel in the dict of get_region_data
region_data_key(local) == ToString(local[1]) \o "," \o ToString(local[2])

\* CanvasService.get_region_data (the timestamps are left out)
get_region_data(regs, region_x, region_y) ==
  IF ~is_valid_region(region_x, region_y) THEN << >>
  ELSE IF <<region_x, region_y>> \notin DOMAIN regs THEN << >>
  ELSE LET m == regs[<<region_x, region_y>>] IN
       [key \in {region_data_key(l) : l \in DOMAIN m} |->
          LET l == CHOOSE l \in DOMAIN m : region_data_key(l) = key
          IN [color |-> m[l].color, user_id |-> m[l].user_id]]

\* CanvasService.get_total_pixels
RECURSIVE SumLen(_, _)
SumLen(regs, keys) ==
  IF keys = {} THEN 0
  ELSE LET r == CHOOSE r \in keys : TRUE
       IN Cardinality(DOMAIN regs[r]) + SumLen(regs, keys \ {r})

get_total_pixels(regs) == SumLen(regs, DOMAIN regs)

\* CanvasPersistence._flush_pending_pixels: the queue is written and cleared
flush_pending_pixels(pending) == 0

\* CanvasPersistence.save_pixel: the pixel is queued; a full batch is flushed
save_pixel(pending) ==
  IF pending + 1 >= batch_size THEN flush_pending_pixels(pending + 1)
  ELSE pending + 1

\* the line the except clause of _flush_pending_pixels prints
FlushError == "Error flushing pixels"

\* CanvasPersistence._flush_pending_pixels with the outcome of its write
\* (flushed: pandas and pyarrow raised nothing): the length of the queue
\* after it and what it printed. An empty queue returns at once; a write
\* that raises leaves the queue as it was.
flush_pending_pixels_outcome(pending, flushed) ==
  IF pending = 0 THEN [pending |-> 0, printed |-> {}]
  ELSE IF flushed THEN [pending |-> 0, printed |-> {}]
  ELSE [pending |-> pending, printed |-> {FlushError}]

\* variant: the batch is flushed only once it is over batch_size
save_pixel_outcome_late(pending, flushed) ==
  IF pending + 1 > batch_size
  THEN flush_pending_pixels_outcome(pending + 1, flushed)
  ELSE [pending |-> pending + 1, printed |-> {}]

\* CanvasPersistence.save_pixel with the outcome of the write of a full batch
save_pixel_outcome(pending, flushed) ==
  IF pending + 1 >= batch_size
  THEN flush_pending_pixels_outcome(pending + 1, flushed)
  ELSE [pending |-> pending + 1, printed |-> {}]

\* ------------------------------------------------------------ records
\* _dirty_flush_task: None, a task created by _schedule_dirty_flush that has
\* not run yet (delay: the seconds of its sleep that are left), that task
\* suspended inside _flush_dirty_users (dirty: the users it took from the
\* dirty set; upserted: those it has upserted so far), or that task finished
NoTask == [state |-> "none", delay |-> 0, dirty |-> {}, upserted |-> {}]
FlushTask(delay) ==
  [state |-> "pending", delay |-> delay, dirty |-> {}, upserted |-> {}]
Flushing(dirty) ==
  [state |-> "flushing", delay |-> 0, dirty |-> dirty, upserted |-> {}]
DoneTask == [state |-> "done", delay |-> 0, dirty |-> {}, upserted |-> {}]

\* the record of a session that has sent no viewport_regions message
NeverSubscribed == [last |-> {}, times |-> 0, at |-> 0]

\* the record after a viewport_regions message with the region set S, handled
\* when w canvas writes had been made (times: 1, or 2 for "twice or more")
Resubscribed(rec, S, w) ==
  IF rec.times > 0 /\ rec.last = S
  THEN [last |-> S, times |-> 2, at |-> w]
  ELSE [last |-> S, times |-> 1, at |-> w]

\* ------------------------------------------------------------ frames
\* broadcast_to_region, suspended in its loop over the copied subscriber set
\* (att: the users send_text was called for; got: those it succeeded for)
BFrame(r, msg, copy, ex) ==
  [k |-> "B", r |-> r, msg |-> msg, copy |-> copy, todo |-> copy, ex |-> ex,
   att |-> {}, got |-> {}]

\* a broadcast_to_region call that has not started yet
B0Frame(r, msg, ex) == [k |-> "B0", r |-> r, msg |-> msg, ex |-> ex]

\* RegionManager.send_to_user(u, ...) that has not started yet
SFrame(u) == [k |-> "S", u |-> u]

\* await websocket.send_text(...) on the coroutine's own websocket
RFrame(m) == [k |-> "R", msg |-> m]

\* RegionManager.place_pixel returning flag
\* ("True" or "False")
RetFrame(flag) == [k |-> "Ret", flag |-> flag]

\* RegionManager.place_pixel in its loop over regions_to_broadcast
PFrame(msg, todo) == [k |-> "P", msg |-> msg, todo |-> todo]

\* the body of RegionManager.connect_user, after auth_success was sent
CUFrame == [k |-> "CU"]

\* disconnect_user(u) in its loop over user_regions[u].copy(); tracked is the
\* outcome of `if user_id in self.user_regions`
DFrame(u, todo, tracked) ==
  [k |-> "D", u |-> u, todo |-> todo, tracked |-> tracked]

\* RegionManager.disconnect_user up to its loop: returns at once for a user
\* the user service does not know
DisconnectFrames(u, us, ur) ==
  IF u \notin DOMAIN us THEN <<>>
  ELSE IF u \in DOMAIN ur THEN <<DFrame(u, ur[u], TRUE)>>
  ELSE <<DFrame(u, {}, FALSE)>>

\* one entry of a pixel_update / pixel_batch_update; wid numbers the write
Update(wid, x, y, color, user_id) ==
  [wid |-> wid, x |-> x, y |-> y, color |-> color, user_id |-> user_id]

PixelUpdate(upd) == [type |-> "pixel_update", updates |-> <<upd>>]
PixelBatchUpdate(upds) == [type |-> "pixel_batch_update", updates |-> upds]
UserJoin(u) == [type |-> "user_join", user_id |-> u]
UserLeave(u) == [type |-> "user_leave", user_id |-> u]
BagUpdate == [type |-> "pixel_bag_update"]
BulkComplete(requested, attempted, placed, remaining) ==
  [type |-> "bulk_complete", requested |-> requested, attempted |-> attempted,
   placed |-> placed, remaining |-> remaining]
\* the record kept of a placement attempt
Attempt(path, user, outcome, bag) ==
  [path |-> path, user |-> user, outcome |-> outcome, bag |-> bag]

NoMessage == [type |-> "none"]
IsPixelMsg(m) == m.type \in {"pixel_update", "pixel_batch_update"}

\* ------------------------------------------------------------ initial state
NewUser ==
  [pixel_bag_size |-> INITIAL_PIXEL_BAG,
   max_pixel_bag_size |-> MAX_PIXEL_BAG,
   total_pixels_placed |-> 0,
   last_pixel_placed_at |-> NoTime,
   last_bag_refill_at |-> 0]

\* the users whose clients send placements in Spec; the others only listen
Actors == {"u1"}

\* bags the user store holds for an actor at start-up: nearly empty, a new
\* account's, and one refilled nearly to the ceiling
InitBags == {1, INITIAL_PIXEL_BAG, MAX_PIXEL_BAG - 1}

Init ==
  /\ now = 0
  /\ auth_users \in
       {[u \in Users |->
           IF u \in Actors THEN [NewUser EXCEPT !.pixel_bag_size = b] ELSE NewUser]
        : b \in InitBags}
  /\ regions = [r \in ModelRegions |-> << >>]
  /\ region_connections = [r \in ModelRegions |-> {}]
  /\ user_regions = << >>
  /\ users = << >>
  /\ alive = [u \in Users |-> FALSE]
  /\ hs = [u \in Users |-> "new"]
  /\ stack = [u \in Users |-> << >>]
  /\ turn = None
  /\ inbox = [u \in Users |-> << >>]
  /\ last_sent = [u \in Users |-> NoMessage]
  /\ result = [u \in Users |-> None]
  /\ ops = 0
  /\ nwrites = 0
  /\ granted = [u \in Users |-> 0]
  /\ written = [u \in Users |-> 0]
  /\ initial = [u \in Users |-> auth_users[u].pixel_bag_size]
  /\ attempt = Attempt("none", None, "none", 0)
  /\ placements = << >>
  /\ subscribed = [u \in Users |-> NeverSubscribed]
  /\ dirty_users = {}
  /\ dirty_flush_task = NoTask
  /\ saves = 0
  /\ saved = 0
  /\ pending_pixels = 0
  /\ db_errors = {}
  /\ lifespan = "up"


\* ------------------------------------------------------------ scheduling
Top(h) == Head(stack[h])
Rest(h) == Tail(stack[h])

\* h may run: nobody else is between two suspension points
Runnable(h) == (turn = None \/ turn = h) /\ stack[h] # << >>

\* h waits in `await websocket.receive_text()`
Idle(h) == turn = None /\ hs[h] = "on" /\ stack[h] = << >>

\* An exception (or WebSocketDisconnect) leaves the message loop: the except
\* clauses of websocket_endpoint call disconnect_user for the coroutine's own
\* user; an exception raised by that call leaves websocket_endpoint.
Raise(h, us, ur) ==
  IF hs[h] = "on"
  THEN LET s == DisconnectFrames(h, us, ur) IN
       /\ stack' = [stack EXCEPT ![h] = s]
       /\ hs' = [hs EXCEPT ![h] = IF s = << >> THEN "off" ELSE "closing"]
       /\ turn' = IF s = << >> THEN None ELSE h
  ELSE /\ stack' = [stack EXCEPT ![h] = << >>]
       /\ hs' = [hs EXCEPT ![h] = "off"]
       /\ turn' = None

\* h goes on with the frames s; susp: it has just awaited a send that succeeded.
\* With no frame left it is back at receive_text, or, after the disconnect
\* cleanup of the except clauses, at the end of websocket_endpoint.  Nesting
\* beyond the interpreter's recursion limit raises RecursionError.
Continue(h, s, susp) ==
  IF Len(s) > RecursionLimit
  THEN Raise(h, users, user_regions)
  ELSE /\ stack' = [stack EXCEPT ![h] = s]
       /\ hs' = IF s = << >> /\ hs[h] = "closing"
                THEN [hs EXCEPT ![h] = "off"] ELSE hs
       /\ turn' = IF susp \/ s = << >> THEN None ELSE h

\* ------------------------------------------------------------ environment
\* a second of wall-clock time passes
Tick ==
  /\ turn = None
  /\ now < MaxTime
  /\ now' = now + 1
  \* asyncio.sleep of the flush task
  /\ dirty_flush_task' =
       [dirty_flush_task EXCEPT !.delay = IF @ > 0 THEN @ - 1 ELSE 0]
  /\ UNCHANGED <<auth_users, regions, region_connections, user_regions, users,
                 alive, hs, stack, turn, inbox, last_sent, result, ops, nwrites, pending_pixels, granted,
                 written, initial, attempt, placements,
                 subscribed, dirty_users, saves,
                 lifespan, db_errors, saved>>

\* the client's connection breaks: sends to it fail from now on
Drop(h) ==
  /\ turn = None
  /\ hs[h] = "on"
  /\ alive[h]
  /\ alive' = [alive EXCEPT ![h] = FALSE]
  /\ UNCHANGED <<now, auth_users, regions, region_connections, user_regions,
                 users, hs, stack, turn, inbox, last_sent, result, ops, nwrites, pending_pixels, granted,
                 written, initial, attempt, placements,
                 subscribed, dirty_users, dirty_flush_task, saves,
                 lifespan, db_errors, saved>>

\* ------------------------------------------------------------ sends
\* await websocket.send_text(...) on the coroutine's own websocket
SendOwn(h) ==
  /\ Runnable(h)
  /\ Top(h).k = "R"
  /\ IF alive[h]
     THEN /\ Continue(h, Rest(h), TRUE)
          /\ last_sent' = [last_sent EXCEPT ![h] = Top(h).msg]
     ELSE /\ Raise(h, users, user_regions)
          /\ UNCHANGED last_sent
  /\ UNCHANGED <<now, auth_users, regions, region_connections, user_regions,
                 users, alive, inbox, result, ops, nwrites, pending_pixels, granted, written,
                 initial, attempt, placements,
                 subscribed, dirty_users, dirty_flush_task, saves,
                 lifespan, db_errors, saved>>

\* RegionManager.send_to_user(u, message), called outside a broadcast
send_to_user(h) ==
  /\ Runnable(h)
  /\ Top(h).k = "S"
  /\ LET t == Top(h).u IN
       IF t \notin DOMAIN users THEN Continue(h, Rest(h), FALSE)
       ELSE IF alive[t] THEN Continue(h, Rest(h), TRUE)
       ELSE Continue(h, DisconnectFrames(t, users, user_regions) \o Rest(h), FALSE)
  /\ UNCHANGED <<now, auth_users, regions, region_connections, user_regions,
                 users, alive, inbox, last_sent, result, ops, nwrites, pending_pixels, granted, written,
                 initial, attempt, placements,
                 subscribed, dirty_users, dirty_flush_task, saves,
                 lifespan, db_errors, saved>>

\* broadcast_to_region up to its loop: the copy of the subscriber set
broadcast_start(h) ==
  /\ Runnable(h)
  /\ Top(h).k = "B0"
  /\ LET f == Top(h) IN
       IF f.r \notin DOMAIN region_connections
       THEN Continue(h, Rest(h), FALSE)
       ELSE Continue(h, <<BFrame(f.r, f.msg, region_connections[f.r], f.ex)>>
                        \o Rest(h), FALSE)
  /\ UNCHANGED <<now, auth_users, regions, region_connections, user_regions,
                 users, alive, inbox, last_sent, result, ops, nwrites, pending_pixels, granted, written,
                 initial, attempt, placements,
                 subscribed, dirty_users, dirty_flush_task, saves,
                 lifespan, db_errors, saved>>

\* what the client of t has been sent, after message m arrived through region r
Delivered(t, m, r) ==
  IF IsPixelMsg(m)
  THEN [inbox EXCEPT ![t] = Append(@, [type |-> m.type, via |-> r,
                                       updates |-> m.updates])]
  ELSE inbox

\* one iteration of the loop of broadcast_to_region, with its send_to_user
broadcast_to_region(h) ==
  /\ Runnable(h)
  /\ Top(h).k = "B"
  /\ Top(h).todo # {}
  /\ \E t \in Top(h).todo :
       LET f == [Top(h) EXCEPT !.todo = @ \ {t}] IN
         IF t = f.ex \/ t \notin DOMAIN users
         THEN /\ Continue(h, <<f>> \o Rest(h), FALSE)
              /\ inbox' = inbox
         ELSE IF alive[t]
         THEN /\ Continue(h, <<[f EXCEPT !.att = @ \cup {t}, !.got = @ \cup {t}]>>
                             \o Rest(h), TRUE)
              /\ inbox' = Delivered(t, f.msg, f.r)
         ELSE /\ Continue(h, DisconnectFrames(t, users, user_regions)
                             \o <<[f EXCEPT !.att = @ \cup {t}]>> \o Rest(h), FALSE)
              /\ inbox' = inbox
  /\ UNCHANGED <<now, auth_users, regions, region_connections, user_regions,
                 users, alive, last_sent, result, ops, nwrites, pending_pixels, granted, written,
                 initial, attempt, placements,
                 subscribed, dirty_users, dirty_flush_task, saves,
                 lifespan, db_errors, saved>>

\* the loop of broadcast_to_region is exhausted: the call returns
broadcast_return(h) ==
  /\ Runnable(h)
  /\ Top(h).k = "B"
  /\ Top(h).todo = {}
  /\ Continue(h, Rest(h), FALSE)
  /\ UNCHANGED <<now, auth_users, regions, region_connections, user_regions,
                 users, alive, inbox, last_sent, result, ops, nwrites, pending_pixels, granted, written,
                 initial, attempt, placements,
                 subscribed, dirty_users, dirty_flush_task, saves,
                 lifespan, db_errors, saved>>


\* ------------------------------------------------------------ disconnect
\* one iteration of the loop of disconnect_user: discard, then notify the region
disconnect_user(h) ==
  /\ Runnable(h)
  /\ Top(h).k = "D"
  /\ Top(h).todo # {}
  /\ \E r \in Top(h).todo :
       LET f == [Top(h) EXCEPT !.todo = @ \ {r}] IN
         IF r \notin DOMAIN region_connections
         THEN \* KeyError
              /\ Raise(h, users, user_regions)
              /\ UNCHANGED region_connections
         ELSE /\ region_connections' =
                   [region_connections EXCEPT ![r] = @ \ {f.u}]
              /\ Continue(h, <<BFrame(r, UserLeave(f.u),
                                      region_connections'[r], f.u), f>>
                             \o Rest(h), FALSE)
  /\ UNCHANGED <<now, auth_users, regions, user_regions, users, alive, inbox,
                 last_sent, result, ops, nwrites, pending_pixels, granted, written,
                 initial, attempt, placements,
                 subscribed, dirty_users, dirty_flush_task, saves,
                 lifespan, db_errors, saved>>

\* after the loop: del self.user_regions[user_id]; user_service.remove_user
disconnect_finish(h) ==
  /\ Runnable(h)
  /\ Top(h).k = "D"
  /\ Top(h).todo = {}
  /\ LET f == Top(h) IN
       IF f.tracked /\ f.u \notin DOMAIN user_regions
       THEN \* KeyError: a second disconnect_user of f.u got there first
            /\ Raise(h, users, user_regions)
            /\ UNCHANGED <<user_regions, users>>
       ELSE /\ user_regions' =
                 IF f.tracked THEN Without(user_regions, f.u) ELSE user_regions
            /\ users' = Without(users, f.u)
            /\ Continue(h, Rest(h), FALSE)
  /\ UNCHANGED <<now, auth_users, regions, region_connections, alive, inbox,
                 last_sent, result, ops, nwrites, pending_pixels, granted, written,
                 initial, attempt, placements,
                 subscribed, dirty_users, dirty_flush_task, saves,
                 lifespan, db_errors, saved>>

\* receive_text raises WebSocketDisconnect
receive_disconnect(h) ==
  /\ Idle(h)
  /\ ~alive[h]
  /\ Raise(h, users, user_regions)
  /\ UNCHANGED <<now, auth_users, regions, region_connections, user_regions,
                 users, alive, inbox, last_sent, result, ops, nwrites, pending_pixels, granted, written,
                 initial, attempt, placements,
                 subscribed, dirty_users, dirty_flush_task, saves,
                 lifespan, db_errors, saved>>

\* ------------------------------------------------------------ connect
\* AuthService.refill_user_pixels as a step: the record and the grant counter
Refilled_everyone(h) == [u \in Users |-> refill_user_pixels(auth_users[u], now)]

Refilled(h) == [auth_users EXCEPT ![h] = refill_user_pixels(@, now)]
Granted(h) == [granted EXCEPT ![h] = @ + refill_gained(auth_users[h], now)]

\* websocket_endpoint up to the auth_success send
websocket_connect(h) ==
  /\ turn = None
  /\ hs[h] = "new"
  /\ alive' = [alive EXCEPT ![h] = TRUE]
  /\ hs' = [hs EXCEPT ![h] = "on"]
  /\ auth_users' = Refilled(h)
  /\ granted' = Granted(h)
  /\ stack' = [stack EXCEPT ![h] = <<CUFrame>>]
  /\ turn' = None
  /\ UNCHANGED <<now, regions, region_connections, user_regions, users, inbox,
                 last_sent, result, ops, nwrites, pending_pixels, written,
                 initial, attempt, placements,
                 subscribed, dirty_users, dirty_flush_task, saves,
                 lifespan, db_errors, saved>>

\* RegionManager.connect_user up to send_region_data
connect_user(h) ==
  /\ Runnable(h)
  /\ Top(h).k = "CU"
  /\ users' = With(users, h, [current_region |-> Center,
                              pixel_bag |-> INITIAL_PIXEL_BAG])
  /\ user_regions' = With(user_regions, h, {Center})
  /\ region_connections' = [region_connections EXCEPT ![Center] = @ \cup {h}]
  /\ Continue(h, <<SFrame(h), B0Frame(Center, UserJoin(h), h)>> \o Rest(h), FALSE)
  /\ UNCHANGED <<now, auth_users, regions, alive, inbox, last_sent, result, ops, nwrites, pending_pixels,
                 granted, written, initial, attempt, placements,
                 subscribed, dirty_users, dirty_flush_task, saves,
                 lifespan, db_errors, saved>>

\* ------------------------------------------------------------ single placement
\* variants of the consume and of the rollback with a plausible slip
consume_free(u) == u
consume_double(u) == [u EXCEPT !.pixel_bag_size = @ - 2]
rollback_twice(u) == [u EXCEPT !.pixel_bag_size = @ + 2]
rollback_none(u) == u

\* pixel_bag_size -= 1
consume(u) == [u EXCEPT !.pixel_bag_size = @ - 1]

\* pixel_bag_size += 1 after a failed write
rollback(u) == [u EXCEPT !.pixel_bag_size = @ + 1]

\* the statistics of a successful placement
finalize(u, consume_time) ==
  [u EXCEPT !.total_pixels_placed = @ + 1, !.last_pixel_placed_at = consume_time]

\* ------------------------------------------------------------ persistence
\* accounts of AuthenticationService.users whose sessions are not modelled:
\* enough of them for the dirty set to reach its threshold
Others == {"o" \o ToString(i) : i \in 1..DIRTY_FLUSH_THRESHOLD}

\* AuthenticationService._save_users: one more task that upserts every user
save_users(n) == n + 1

\* AuthenticationService._schedule_dirty_flush: an existing task that is not
\* cancelled is kept, unless the flush is immediate (then it is cancelled and
\* replaced)
schedule_dirty_flush(task, immediate) ==
  IF task.state # "none" /\ ~immediate
  THEN task
  ELSE FlushTask(IF immediate THEN 0 ELSE DIRTY_FLUSH_DELAY)

\* AuthenticationService.enqueue_dirty: the new _dirty_users and
\* _dirty_flush_task
enqueue_dirty(username, dirty, task) ==
  IF username \notin DOMAIN auth_users \cup Others
  THEN [dirty |-> dirty, task |-> task]
  ELSE [dirty |-> dirty \cup {username},
        task |-> schedule_dirty_flush(task,
                   Cardinality(dirty \cup {username}) >= DIRTY_FLUSH_THRESHOLD)]

\* the task _flush_later after its sleep, up to the first await of
\* _flush_dirty_users: it returns at once when no user is dirty, otherwise it
\* takes the dirty users and clears the set
flush_later ==
  /\ turn = None
  /\ dirty_flush_task.state = "pending"
  /\ dirty_flush_task.delay = 0
  /\ dirty_flush_task' =
       IF dirty_users = {} THEN DoneTask ELSE Flushing(dirty_users)
  /\ dirty_users' = {}
  /\ UNCHANGED <<now, auth_users, regions, region_connections, user_regions,
                 users, alive, hs, stack, turn, inbox, last_sent, result, ops,
                 nwrites, pending_pixels, granted, written, initial, attempt, placements,
                 subscribed, saves,
                 lifespan, db_errors, saved>>

\* _flush_dirty_users: await user_repository.upsert_user for the next user
\* of the list (the list is in the iteration order of the set, which is fixed
\* but arbitrary)
flush_upsert ==
  /\ turn = None
  /\ dirty_flush_task.state = "flushing"
  /\ dirty_flush_task.upserted # dirty_flush_task.dirty
  /\ LET a == CHOOSE b \in dirty_flush_task.dirty \ dirty_flush_task.upserted :
                TRUE
     IN dirty_flush_task' = [dirty_flush_task EXCEPT !.upserted = @ \cup {a}]
  /\ UNCHANGED <<now, auth_users, regions, region_connections, user_regions,
                 users, alive, hs, stack, turn, inbox, last_sent, result, ops,
                 nwrites, pending_pixels, granted, written, initial, attempt, placements,
                 subscribed, dirty_users, saves,
                 lifespan, db_errors, saved>>

\* _flush_dirty_users: await session.commit() after the last upsert
flush_commit ==
  /\ turn = None
  /\ dirty_flush_task.state = "flushing"
  /\ dirty_flush_task.upserted = dirty_flush_task.dirty
  /\ dirty_flush_task' = DoneTask
  /\ UNCHANGED <<now, auth_users, regions, region_connections, user_regions,
                 users, alive, hs, stack, turn, inbox, last_sent, result, ops,
                 nwrites, pending_pixels, granted, written, initial, attempt, placements,
                 subscribed, dirty_users, saves,
                 lifespan, db_errors, saved>>

\* _flush_dirty_users: an upsert or the commit raises; the except clause
\* prints the error and the task ends
flush_fails ==
  /\ turn = None
  /\ dirty_flush_task.state = "flushing"
  /\ dirty_flush_task' = DoneTask
  /\ db_errors' = db_errors \cup {"Dirty user batch flush failed"}
  /\ UNCHANGED <<now, auth_users, regions, region_connections, user_regions,
                 users, alive, hs, stack, turn, inbox, last_sent, result, ops,
                 nwrites, pending_pixels, granted, written, initial, attempt, placements,
                 subscribed, dirty_users, saves,
                 lifespan, saved>>

\* a task created by _save_users runs: it upserts every user and commits
save_task ==
  /\ turn = None
  /\ saved < saves
  /\ saved' = saved + 1
  /\ UNCHANGED <<now, auth_users, regions, region_connections, user_regions,
                 users, alive, hs, stack, turn, inbox, last_sent, result, ops,
                 nwrites, pending_pixels, granted, written, initial, attempt, placements,
                 subscribed, dirty_users, dirty_flush_task, saves,
                 lifespan, db_errors>>

\* a save task whose upsert (or commit) raises, with the exception passed on
\* to the handler of a session
save_task_fails_raising ==
  /\ \E h \in Users : hs[h] = "on" /\ Raise(h, users, user_regions)
  /\ saved < saves
  /\ saved' = saved + 1
  /\ UNCHANGED <<now, auth_users, regions, region_connections, user_regions,
                 users, alive, inbox, last_sent, result, ops,
                 nwrites, pending_pixels, granted, written, initial, attempt, placements,
                 subscribed, dirty_users, dirty_flush_task, saves,
                 lifespan, db_errors>>

\* a task created by _save_users runs and an upsert (or the commit) raises:
\* the except clause prints the error and the task ends
save_task_fails ==
  /\ turn = None
  /\ saved < saves
  /\ saved' = saved + 1
  /\ db_errors' = db_errors \cup {"DB save users failed"}
  /\ UNCHANGED <<now, auth_users, regions, region_connections, user_regions,
                 users, alive, hs, stack, turn, inbox, last_sent, result, ops,
                 nwrites, pending_pixels, granted, written, initial, attempt, placements,
                 subscribed, dirty_users, dirty_flush_task, saves,
                 lifespan>>

\* enqueue_dirty(a) at the end of a bulk iteration, with the rest of the
\* handler left out; the accounts without a modelled session are marked in
\* the order of their numbers
enqueue_dirty_other ==
  /\ turn = None
  /\ \E a \in (Others \cup Actors) \ dirty_users :
       /\ a \in Others =>
            a = "o" \o ToString(Cardinality(Others \cap dirty_users) + 1)
       /\ LET e == enqueue_dirty(a, dirty_users, dirty_flush_task)
          IN dirty_users' = e.dirty /\ dirty_flush_task' = e.task
  /\ UNCHANGED <<now, auth_users, regions, region_connections, user_regions,
                 users, alive, hs, stack, turn, inbox, last_sent, result, ops,
                 nwrites, pending_pixels, granted, written, initial, attempt, placements,
                 subscribed, saves,
                 lifespan, db_errors, saved>>

\* the shutdown part of lifespan, run after the server has closed every
\* connection: RegionManager.shutdown, that is CanvasService.shutdown (a canvas
\* snapshot and the stop of the pixel persistence)
shutdown ==
  /\ turn = None
  /\ lifespan = "up"
  /\ \A h \in Users : hs[h] \in {"new", "off"}
  /\ lifespan' = "down"
  /\ pending_pixels' = flush_pending_pixels(pending_pixels)
  /\ UNCHANGED <<now, auth_users, regions, region_connections, user_regions,
                 users, alive, hs, stack, turn, inbox, last_sent, result, ops,
                 nwrites, granted, written, initial, attempt, placements,
                 subscribed, dirty_users, dirty_flush_task, saves,
                 db_errors, saved>>

\* ------------------------------------------------------------ placement
\* a fan-out that addresses every region of the canvas
regions_to_broadcast_everywhere(h, x, y) == DOMAIN region_connections

\* regions_to_broadcast of RegionManager.place_pixel
regions_to_broadcast(h, x, y) ==
  {get_region_coords(x, y)}
    \cup (IF h \in DOMAIN user_regions THEN user_regions[h] ELSE {})

\* the record kept of a successful write at (x, y)
Placement(user, path, fanout, x, y) ==
  [user |-> user, path |-> path, fanout |-> fanout, x |-> x, y |-> y,
   region |-> get_region_coords(x, y),
   audience |-> region_connections[get_region_coords(x, y)]]

\* inbound pixel_place: RegionManager.place_pixel up to its first broadcast
place_pixel(h, x, y, color) ==
  /\ Idle(h)
  /\ alive[h]
  /\ ops' = ops + 1
  /\ granted' = Granted(h)
  /\ LET u == refill_user_pixels(auth_users[h], now)
         out == place_outcome(regions, x, y)
     IN IF u.pixel_bag_size < 1
        THEN /\ auth_users' = [auth_users EXCEPT ![h] = u]
             /\ stack' = [stack EXCEPT ![h] =
                  <<SFrame(h), RetFrame("False"), RFrame(BagUpdate)>>]
             /\ attempt' = Attempt("single", h, "empty", u.pixel_bag_size)
             /\ UNCHANGED <<regions, nwrites, pending_pixels, written, placements, saves>>
        ELSE IF out # "true"
        THEN /\ auth_users' = [auth_users EXCEPT ![h] = rollback(consume(u))]
             /\ stack' = [stack EXCEPT ![h] =
                  <<RetFrame("False"), RFrame(BagUpdate)>>]
             /\ attempt' = Attempt("single", h, "failed", u.pixel_bag_size)
             /\ saves' = save_users(saves)
             /\ UNCHANGED <<regions, nwrites, pending_pixels, written, placements>>
        ELSE /\ auth_users' = [auth_users EXCEPT ![h] = finalize(consume(u), now)]
             /\ regions' = canvas_place_pixel(regions, x, y, color, h)
             /\ nwrites' = nwrites + 1
             /\ pending_pixels' = save_pixel(pending_pixels)
             /\ written' = [written EXCEPT ![h] = @ + 1]
             /\ attempt' = Attempt("single", h, "placed", u.pixel_bag_size)
             /\ saves' = save_users(saves)
             /\ placements' = Append(placements,
                  Placement(h, "single", regions_to_broadcast(h, x, y), x, y))
             /\ stack' = [stack EXCEPT ![h] =
                  <<PFrame(PixelUpdate(Update(nwrites + 1, x, y, color, h)),
                           regions_to_broadcast(h, x, y)),
                    RetFrame("True"), RFrame(BagUpdate)>>]
  /\ turn' = h
  /\ UNCHANGED <<now, region_connections, user_regions, users, alive, hs, inbox,
                 last_sent, result, initial, subscribed, dirty_users,
                 dirty_flush_task,
                 lifespan, db_errors, saved>>

\* one iteration of the loop over regions_to_broadcast
place_pixel_broadcast(h) ==
  /\ Runnable(h)
  /\ Top(h).k = "P"
  /\ Top(h).todo # {}
  /\ \E r \in Top(h).todo :
       LET f == [Top(h) EXCEPT !.todo = @ \ {r}] IN
         IF r \in DOMAIN region_connections
         THEN Continue(h, <<BFrame(r, f.msg, region_connections[r], None), f>>
                          \o Rest(h), FALSE)
         ELSE Continue(h, <<f>> \o Rest(h), FALSE)
  /\ UNCHANGED <<now, auth_users, regions, region_connections, user_regions,
                 users, alive, inbox, last_sent, result, ops, nwrites, pending_pixels, granted, written,
                 initial, attempt, placements,
                 subscribed, dirty_users, dirty_flush_task, saves,
                 lifespan, db_errors, saved>>

\* the loop over regions_to_broadcast is exhausted
place_pixel_broadcast_done(h) ==
  /\ Runnable(h)
  /\ Top(h).k = "P"
  /\ Top(h).todo = {}
  /\ Continue(h, Rest(h), FALSE)
  /\ UNCHANGED <<now, auth_users, regions, region_connections, user_regions,
                 users, alive, inbox, last_sent, result, ops, nwrites, pending_pixels, granted, written,
                 initial, attempt, placements,
                 subscribed, dirty_users, dirty_flush_task, saves,
                 lifespan, db_errors, saved>>

\* RegionManager.place_pixel returns
place_pixel_return(h) ==
  /\ Runnable(h)
  /\ Top(h).k = "Ret"
  /\ result' = [result EXCEPT ![h] = Top(h).flag]
  /\ Continue(h, Rest(h), FALSE)
  /\ UNCHANGED <<now, auth_users, regions, region_connections, user_regions,
                 users, alive, inbox, last_sent, ops, nwrites, pending_pixels, granted, written,
                 initial, attempt, placements,
                 subscribed, dirty_users, dirty_flush_task, saves,
                 lifespan, db_errors, saved>>


\* ------------------------------------------------------------ bulk placement
\* the bulk handler in its loop `for pixel in pixels`
\* (pixels: the list of the request; px: what is left of it; requested:
\* len(pixels); placed: successful_placements; batch: batch_updates; start:
\* start_ms; regenerated: the tokens the refills of the loop have granted)
KFrame(pixels, start, starting_available) ==
  [k |-> "K", pixels |-> pixels, px |-> pixels, requested |-> Len(pixels),
   starting_available |-> starting_available, attempted |-> 0,
   placed |-> 0, batch |-> << >>, start |-> start, regenerated |-> 0]

\* the duration guard, with time.time() in whole seconds
duration_exceeded(start, t) == (t * 1000 - start * 1000) > MAX_BULK_DURATION_MS

\* the distinct regions of the batch in order of first appearance (regions_map)
RECURSIVE regions_map_keys(_)
regions_map_keys(batch) ==
  IF batch = << >> THEN << >>
  ELSE LET r == get_region_coords(Head(batch).x, Head(batch).y)
           later == regions_map_keys(Tail(batch))
       IN <<r>> \o SelectSeq(later, LAMBDA q : q # r)

\* regions_map[r]: the updates of the batch that fall in region r
regions_map_get(batch, r) ==
  SelectSeq(batch, LAMBDA upd : get_region_coords(upd.x, upd.y) = r)

\* one broadcast_to_region call per key of regions_map
RECURSIVE batch_broadcasts(_, _)
batch_broadcasts(batch, keys) ==
  IF keys = << >> THEN << >>
  ELSE <<B0Frame(Head(keys), PixelBatchUpdate(regions_map_get(batch, Head(keys))),
                 None)>>
       \o batch_broadcasts(batch, Tail(keys))

\* inbound bulk_pixel_place with a non-empty list (an empty one is skipped):
\* the handler up to its loop
bulk_pixel_place(h, pixels) ==
  /\ Idle(h)
  /\ alive[h]
  /\ pixels # << >>
  /\ ops' = ops + 1
  /\ auth_users' = Refilled(h)
  /\ granted' = Granted(h)
  /\ stack' = [stack EXCEPT ![h] =
       <<KFrame(pixels, now, auth_users'[h].pixel_bag_size)>>]
  /\ turn' = h
  /\ UNCHANGED <<now, regions, region_connections, user_regions, users, alive,
                 hs, inbox, last_sent, result, nwrites, pending_pixels, written,
                 initial, attempt, placements,
                 subscribed, dirty_users, dirty_flush_task, saves,
                 lifespan, db_errors, saved>>

\* a loop that does not look at the bag
bulk_continues_ignoring_bag(f, u) ==
  /\ f.px # << >>
  /\ ~duration_exceeded(f.start, now)

\* the loop goes on: not exhausted, within the duration, a token in the bag
bulk_continues(f, u) ==
  /\ f.px # << >>
  /\ ~duration_exceeded(f.start, now)
  /\ u.pixel_bag_size > 0

\* the attempt of one iteration (try, except and the message the except
\* clause prints): "escape" when the operation lacks a key, since printing
\* pixel['x'] in the except clause raises KeyError again; otherwise the outcome
\* of CanvasService.place_pixel
bulk_outcome(regs, pixel) ==
  IF pixel.x = Absent \/ pixel.y = Absent THEN "escape"
  ELSE place_outcome(regs, pixel.x, pixel.y)

\* one iteration of the bulk loop that reaches the consume
bulk_iteration(h) ==
  /\ Runnable(h)
  /\ Top(h).k = "K"
  /\ LET f == Top(h)
         u == refill_user_pixels(auth_users[h], now)
         e == enqueue_dirty(h, dirty_users, dirty_flush_task)
     IN /\ bulk_continues(f, u)
        /\ LET pixel == Head(f.px)
               out == bulk_outcome(regions, pixel)
               g == [f EXCEPT !.px = Tail(@), !.attempted = @ + 1,
                              !.regenerated =
                                 @ + refill_gained(auth_users[h], now)]
           IN IF out = "true"
              THEN /\ auth_users' =
                        [auth_users EXCEPT ![h] = finalize(consume(u), now)]
                   /\ regions' = canvas_place_pixel(regions, pixel.x, pixel.y,
                                                    pixel.color, h)
                   /\ nwrites' = nwrites + 1
                   /\ pending_pixels' = save_pixel(pending_pixels)
                   /\ written' = [written EXCEPT ![h] = @ + 1]
                   /\ attempt' = Attempt("bulk", h, "placed", u.pixel_bag_size)
                   /\ placements' = Append(placements,
                        Placement(h, "bulk",
                                  {get_region_coords(pixel.x, pixel.y)},
                                  pixel.x, pixel.y))
                   \* reward_scale_update goes to the own websocket; a failure
                   \* of that send is caught inside the loop
                   /\ Continue(h,
                        <<[g EXCEPT !.placed = @ + 1,
                                    !.batch = Append(@, Update(nwrites + 1, pixel.x,
                                                 pixel.y, pixel.color, h))]>>
                        \o Rest(h), alive[h])
                   \* the iteration ends with enqueue_dirty (after the send)
                   /\ dirty_users' = e.dirty
                   /\ dirty_flush_task' = e.task
              ELSE IF out = "escape"
              THEN \* the exception leaves the loop and the message loop: no
                   \* rollback, no enqueue_dirty, no report
                   /\ auth_users' = [auth_users EXCEPT ![h] = consume(u)]
                   /\ attempt' = Attempt("bulk", h, "escaped", u.pixel_bag_size)
                   /\ Raise(h, users, user_regions)
                   /\ UNCHANGED <<regions, nwrites, pending_pixels, written, placements,
                                  dirty_users, dirty_flush_task>>
              ELSE /\ auth_users' =
                        [auth_users EXCEPT ![h] = rollback(consume(u))]
                   /\ attempt' = Attempt("bulk", h, "failed", u.pixel_bag_size)
                   /\ Continue(h, <<g>> \o Rest(h), FALSE)
                   /\ dirty_users' = e.dirty
                   /\ dirty_flush_task' = e.task
                   /\ UNCHANGED <<regions, nwrites, pending_pixels, written, placements>>
  /\ granted' = Granted(h)
  /\ UNCHANGED <<now, region_connections, user_regions, users, alive, inbox,
                 last_sent, result, ops, initial, subscribed, saves,
                 lifespan, db_errors, saved>>

\* the loop ends (list exhausted, duration guard, or empty bag after the
\* refill of the iteration); the handler goes on to the batch broadcast
bulk_finish(h) ==
  /\ Runnable(h)
  /\ Top(h).k = "K"
  /\ LET f == Top(h)
         guard == f.px = << >> \/ duration_exceeded(f.start, now)
         u == IF guard THEN auth_users[h]
              ELSE refill_user_pixels(auth_users[h], now)
     IN /\ ~bulk_continues(f, u)
        /\ auth_users' = [auth_users EXCEPT ![h] = u]
        /\ granted' = [granted EXCEPT ![h] = @ + u.pixel_bag_size
                                                  - auth_users[h].pixel_bag_size]
        /\ Continue(h,
             batch_broadcasts(f.batch, regions_map_keys(f.batch))
             \o <<RFrame(BagUpdate),
                  RFrame(BulkComplete(f.requested, f.attempted, f.placed,
                                      u.pixel_bag_size))>>
             \o Rest(h), FALSE)
  \* "final flush of dirty user state": enqueue_dirty once more
  /\ LET e == enqueue_dirty(h, dirty_users, dirty_flush_task)
     IN dirty_users' = e.dirty /\ dirty_flush_task' = e.task
  /\ UNCHANGED <<now, regions, region_connections, user_regions, users, alive,
                 inbox, last_sent, result, ops, nwrites, pending_pixels, written,
                 initial, attempt, placements, subscribed, saves,
                 lifespan, db_errors, saved>>

\* ------------------------------------------------------------ subscriptions
\* inbound viewport_regions: RegionManager.update_user_regions
update_user_regions(h, visible_regions) ==
  /\ Idle(h)
  /\ alive[h]
  /\ ops' = ops + 1
  /\ IF h \notin DOMAIN users
     THEN UNCHANGED <<region_connections, user_regions, users, subscribed>>
     ELSE LET new_regions == {visible_regions[i] : i \in DOMAIN visible_regions}
              current_regions ==
                IF h \in DOMAIN user_regions THEN user_regions[h] ELSE {}
              regions_to_add == new_regions \ current_regions
              regions_to_remove == current_regions \ new_regions
          IN /\ region_connections' =
                  [r \in DOMAIN region_connections |->
                     IF r \in regions_to_remove THEN region_connections[r] \ {h}
                     ELSE IF r \in regions_to_add
                     THEN region_connections[r] \cup {h}
                     ELSE region_connections[r]]
             /\ user_regions' = With(user_regions, h, new_regions)
             /\ users' = IF visible_regions # << >>
                         THEN [users EXCEPT ![h].current_region = visible_regions[1]]
                         ELSE users
             /\ subscribed' = [subscribed EXCEPT ![h] =
                                 Resubscribed(@, new_regions, nwrites)]
  /\ UNCHANGED <<now, auth_users, regions, alive, hs, stack, turn, inbox,
                 last_sent, result, nwrites, pending_pixels, granted, written,
                 initial, attempt, placements,
                 dirty_users, dirty_flush_task, saves,
                 lifespan, db_errors, saved>>

\* move_user_to_region after the leave notification of the old region
MFrame(u, new_region) == [k |-> "M", u |-> u, r |-> new_region]

\* inbound user_position: RegionManager.move_user_to_region up to its first
\* broadcast
move_user_to_region(h, new_region) ==
  /\ Idle(h)
  /\ alive[h]
  /\ ops' = ops + 1
  /\ IF h \notin DOMAIN users \/ users[h].current_region = new_region
     THEN UNCHANGED <<region_connections, hs, stack, turn>>
     ELSE LET old_region == users[h].current_region IN
          IF old_region \notin DOMAIN region_connections
          THEN \* KeyError
               /\ Raise(h, users, user_regions)
               /\ UNCHANGED region_connections
          ELSE /\ region_connections' =
                    [region_connections EXCEPT ![old_region] = @ \ {h}]
               /\ stack' = [stack EXCEPT ![h] =
                    <<BFrame(old_region, UserLeave(h),
                             region_connections'[old_region], h),
                      MFrame(h, new_region)>>]
               /\ turn' = h
               /\ UNCHANGED hs
  /\ UNCHANGED <<now, auth_users, regions, user_regions, users, alive, inbox,
                 last_sent, result, nwrites, pending_pixels, granted, written,
                 initial, attempt, placements,
                 subscribed, dirty_users, dirty_flush_task, saves,
                 lifespan, db_errors, saved>>

\* move_user_to_region: the user joins the new region
move_user_join(h) ==
  /\ Runnable(h)
  /\ Top(h).k = "M"
  /\ LET f == Top(h) IN
       IF f.r \notin DOMAIN region_connections
       THEN \* KeyError
            /\ Raise(h, users, user_regions)
            /\ UNCHANGED <<region_connections, users>>
       ELSE /\ region_connections' =
                 [region_connections EXCEPT ![f.r] = @ \cup {f.u}]
            \* the assignment goes to the User object, registered or not
            /\ users' = IF f.u \in DOMAIN users
                        THEN [users EXCEPT ![f.u].current_region = f.r]
                        ELSE users
            /\ Continue(h, <<SFrame(f.u), B0Frame(f.r, UserJoin(f.u), f.u)>>
                           \o Rest(h), FALSE)
  /\ UNCHANGED <<now, auth_users, regions, user_regions, alive, inbox,
                 last_sent, result, ops, nwrites, pending_pixels, granted, written,
                 initial, attempt, placements,
                 subscribed, dirty_users, dirty_flush_task, saves,
                 lifespan, db_errors, saved>>

\* ------------------------------------------------------------ placement, await by await
\* The placement handlers once more, for a connection c that authenticated as
\* user u, with each await between the consume and the rollback as a step of
\* its own: what place_pixel, bulk_pixel_place, bulk_iteration and bulk_finish
\* above do in one step, given that none of these awaits suspends.

\* whether `await self.persistence.save_pixel(pixel)` suspends the caller: it
\* appends to pending_pixels and, when the batch is full, awaits
\* _flush_pending_pixels, which writes the file with blocking calls and
\* awaits nothing
save_pixel_suspends_for_disk == TRUE

save_pixel_suspends == FALSE

\* the token is consumed and canvas_service.place_pixel is about to be awaited
CFrame(u, path, x, y, color, consume_time) ==
  [k |-> "C", u |-> u, path |-> path, x |-> x, y |-> y, color |-> color,
   consume_time |-> consume_time]

\* canvas_service.place_pixel has returned True or False, or has raised into
\* the except clause of its caller, which leaves placed False
FFrame(f, outcome, wid) ==
  [k |-> "F", u |-> f.u, path |-> f.path, x |-> f.x, y |-> f.y,
   color |-> f.color, consume_time |-> f.consume_time, outcome |-> outcome,
   placed |-> outcome = "true", wid |-> wid]

\* the bulk loop of a connection of user u
KUFrame(u, pixels, start, starting_available) ==
  [k |-> "KU", u |-> u, pixels |-> pixels, px |-> pixels,
   requested |-> Len(pixels), starting_available |-> starting_available,
   attempted |-> 0, placed |-> 0, batch |-> << >>, start |-> start,
   regenerated |-> 0]

\* inbound pixel_place: RegionManager.place_pixel up to the await of
\* canvas_service.place_pixel
place_consume(c, u, x, y, color) ==
  /\ Idle(c)
  /\ alive[c]
  /\ ops' = ops + 1
  /\ granted' = [granted EXCEPT ![u] = @ + refill_gained(auth_users[u], now)]
  /\ LET r == refill_user_pixels(auth_users[u], now)
     IN IF r.pixel_bag_size < 1
        THEN /\ auth_users' = [auth_users EXCEPT ![u] = r]
             /\ stack' = [stack EXCEPT ![c] =
                  <<SFrame(u), RetFrame("False"), RFrame(BagUpdate)>>]
             /\ attempt' = Attempt("single", u, "empty", r.pixel_bag_size)
        ELSE /\ auth_users' = [auth_users EXCEPT ![u] = consume(r)]
             /\ stack' = [stack EXCEPT ![c] =
                  <<CFrame(u, "single", x, y, color, now)>>]
             /\ attempt' = Attempt("single", u, "consumed", r.pixel_bag_size)
  /\ turn' = c
  /\ UNCHANGED <<now, regions, region_connections, user_regions, users, alive,
                 hs, inbox, last_sent, result, nwrites, pending_pixels, written, initial,
                 placements, subscribed, dirty_users, dirty_flush_task, saves,
                 lifespan, db_errors, saved>>

\* await canvas_service.place_pixel(...), with its await of save_pixel
canvas_place(c) ==
  /\ Runnable(c)
  /\ Top(c).k = "C"
  /\ LET f == Top(c) IN
       IF place_outcome(regions, f.x, f.y) = "true"
       THEN /\ regions' = canvas_place_pixel(regions, f.x, f.y, f.color, f.u)
            /\ nwrites' = nwrites + 1
            /\ pending_pixels' = save_pixel(pending_pixels)
            /\ written' = [written EXCEPT ![f.u] = @ + 1]
            /\ placements' = Append(placements,
                 Placement(f.u, f.path,
                           IF f.path = "single"
                           THEN regions_to_broadcast(f.u, f.x, f.y)
                           ELSE {get_region_coords(f.x, f.y)},
                           f.x, f.y))
            /\ Continue(c, <<FFrame(f, "true", nwrites + 1)>> \o Rest(c),
                        save_pixel_suspends)
       ELSE /\ Continue(c, <<FFrame(f, place_outcome(regions, f.x, f.y), 0)>>
                           \o Rest(c), FALSE)
            /\ UNCHANGED <<regions, nwrites, pending_pixels, written, placements>>
  /\ UNCHANGED <<now, auth_users, region_connections, user_regions, users,
                 alive, inbox, last_sent, result, ops, granted, initial,
                 attempt, subscribed, dirty_users, dirty_flush_task, saves,
                 lifespan, db_errors, saved>>

\* RegionManager.place_pixel after the await: rollback and return False, or
\* the statistics, and on to the broadcasts
place_settle(c) ==
  /\ Runnable(c)
  /\ Top(c).k = "F"
  /\ Top(c).path = "single"
  /\ LET f == Top(c) IN
       IF f.placed
       THEN /\ auth_users' =
                 [auth_users EXCEPT ![f.u] = finalize(@, f.consume_time)]
            /\ attempt' = [attempt EXCEPT !.outcome = "placed"]
            /\ Continue(c,
                 <<PFrame(PixelUpdate(Update(f.wid, f.x, f.y, f.color, f.u)),
                          regions_to_broadcast(f.u, f.x, f.y)),
                   RetFrame("True"), RFrame(BagUpdate)>> \o Rest(c), FALSE)
       ELSE /\ auth_users' = [auth_users EXCEPT ![f.u] = rollback(@)]
            /\ attempt' = [attempt EXCEPT !.outcome = "failed"]
            /\ Continue(c, <<RetFrame("False"), RFrame(BagUpdate)>> \o Rest(c),
                        FALSE)
  /\ saves' = save_users(saves)
  /\ UNCHANGED <<now, regions, region_connections, user_regions, users, alive,
                 inbox, last_sent, result, ops, nwrites, pending_pixels, granted, written,
                 initial, placements, subscribed, dirty_users,
                 dirty_flush_task, lifespan, db_errors, saved>>

\* inbound bulk_pixel_place with a non-empty list: the handler up to its loop
bulk_begin(c, u, pixels) ==
  /\ Idle(c)
  /\ alive[c]
  /\ pixels # << >>
  /\ ops' = ops + 1
  /\ auth_users' = [auth_users EXCEPT ![u] = refill_user_pixels(@, now)]
  /\ granted' = [granted EXCEPT ![u] = @ + refill_gained(auth_users[u], now)]
  /\ stack' = [stack EXCEPT ![c] =
       <<KUFrame(u, pixels, now, auth_users'[u].pixel_bag_size)>>]
  /\ turn' = c
  /\ UNCHANGED <<now, regions, region_connections, user_regions, users, alive,
                 hs, inbox, last_sent, result, nwrites, pending_pixels, written, initial,
                 attempt, placements, subscribed, dirty_users,
                 dirty_flush_task, saves, lifespan, db_errors, saved>>

\* one iteration of the bulk loop up to the await of
\* canvas_service.place_pixel
bulk_consume(c) ==
  /\ Runnable(c)
  /\ Top(c).k = "KU"
  /\ LET f == Top(c)
         r == refill_user_pixels(auth_users[f.u], now)
         pixel == Head(f.px)
     IN /\ bulk_continues(f, r)
        /\ auth_users' = [auth_users EXCEPT ![f.u] = consume(r)]
        /\ granted' = [granted EXCEPT ![f.u] =
                         @ + refill_gained(auth_users[f.u], now)]
        /\ attempt' = Attempt("bulk", f.u, "consumed", r.pixel_bag_size)
        /\ Continue(c,
             <<CFrame(f.u, "bulk", pixel.x, pixel.y, pixel.color, now),
               [f EXCEPT !.px = Tail(@), !.attempted = @ + 1,
                         !.regenerated =
                            @ + refill_gained(auth_users[f.u], now)]>>
             \o Rest(c), FALSE)
  /\ UNCHANGED <<now, regions, region_connections, user_regions, users, alive,
                 inbox, last_sent, result, ops, nwrites, pending_pixels, written, initial,
                 placements, subscribed, dirty_users, dirty_flush_task, saves,
                 lifespan, db_errors, saved>>

\* the iteration after the await: the statistics, the batch and the
\* reward_scale_update send, or the rollback; then enqueue_dirty
bulk_settle(c) ==
  /\ Runnable(c)
  /\ Top(c).k = "F"
  /\ Top(c).path = "bulk"
  /\ LET f == Top(c)
         loop == stack[c][2]
         e == enqueue_dirty(f.u, dirty_users, dirty_flush_task)
     IN /\ IF f.placed
           THEN /\ auth_users' =
                     [auth_users EXCEPT ![f.u] = finalize(@, f.consume_time)]
                /\ attempt' = [attempt EXCEPT !.outcome = "placed"]
                /\ Continue(c,
                     <<[loop EXCEPT !.placed = @ + 1,
                                    !.batch = Append(@, Update(f.wid, f.x, f.y,
                                                               f.color, f.u))]>>
                     \o Tail(Rest(c)), alive[c])
           ELSE /\ auth_users' = [auth_users EXCEPT ![f.u] = rollback(@)]
                /\ attempt' = [attempt EXCEPT !.outcome = "failed"]
                /\ Continue(c, Rest(c), FALSE)
        /\ dirty_users' = e.dirty
        /\ dirty_flush_task' = e.task
  /\ UNCHANGED <<now, regions, region_connections, user_regions, users, alive,
                 inbox, last_sent, result, ops, nwrites, pending_pixels, granted, written,
                 initial, placements, subscribed, saves,
                 lifespan, db_errors, saved>>

\* the loop ends; the handler goes on to the batch broadcast and the reports
bulk_end(c) ==
  /\ Runnable(c)
  /\ Top(c).k = "KU"
  /\ LET f == Top(c)
         guard == f.px = << >> \/ duration_exceeded(f.start, now)
         r == IF guard THEN auth_users[f.u]
              ELSE refill_user_pixels(auth_users[f.u], now)
         e == enqueue_dirty(f.u, dirty_users, dirty_flush_task)
     IN /\ ~bulk_continues(f, r)
        /\ auth_users' = [auth_users EXCEPT ![f.u] = r]
        /\ granted' = [granted EXCEPT ![f.u] =
                         @ + r.pixel_bag_size - auth_users[f.u].pixel_bag_size]
        /\ Continue(c,
             batch_broadcasts(f.batch, regions_map_keys(f.batch))
             \o <<RFrame(BagUpdate),
                  RFrame(BulkComplete(f.requested, f.attempted, f.placed,
                                      r.pixel_bag_size))>>
             \o Rest(c), FALSE)
        /\ dirty_users' = e.dirty
        /\ dirty_flush_task' = e.task
  /\ UNCHANGED <<now, regions, region_connections, user_regions, users, alive,
                 inbox, last_sent, result, ops, nwrites, pending_pixels, written, initial,
                 attempt, placements, subscribed, saves,
                 lifespan, db_errors, saved>>

\* CanvasPersistence._background_save_loop: every save_interval a non-empty
\* queue is written to the canvas file (the interval is not timed here)
background_save ==
  /\ turn = None
  /\ pending_pixels > 0
  /\ pending_pixels' = flush_pending_pixels(pending_pixels)
  /\ UNCHANGED <<now, auth_users, regions, region_connections, user_regions,
                 users, alive, hs, stack, turn, inbox, last_sent, result, ops,
                 nwrites, granted, written, initial, attempt, placements,
                 subscribed, dirty_users, dirty_flush_task, saves, lifespan,
                 db_errors, saved>>

\* ------------------------------------------------------------ the user record outside placements
\* Calls that change a user record outside the placement paths. Each is a
\* synchronous method: it runs to its end in one step. The task that
\* _save_user creates for the one record writes nothing these calls read and
\* is left out.

\* XPService.xp_required_for: int(BASE * level ** 1.4 + FLAT), BASE for
\* level <= 1; tabulated for the levels the model reaches
xp_required_for(level) ==
  IF level <= 1 THEN XP_BASE
  ELSE IF level = 2 THEN 156
  ELSE IF level = 3 THEN 257
  ELSE IF level = 4 THEN 373
  ELSE 500

\* the threshold of the level-up system of update_user_stats
required_xp(level) == level * 1000

\* auth_service.refill_user_pixels(username), called on its own (the bag
\* status endpoints): an unknown user returns 0
refill_call(username) ==
  /\ turn = None
  /\ ops < MaxAccountOps
  /\ ops' = ops + 1
  /\ IF username \notin DOMAIN auth_users
     THEN /\ attempt' = Attempt("refill", username, "returned", 0)
          /\ UNCHANGED <<auth_users, granted>>
     ELSE /\ auth_users' =
               [auth_users EXCEPT ![username] = refill_user_pixels(@, now)]
          /\ granted' = [granted EXCEPT ![username] =
                           @ + refill_gained(auth_users[username], now)]
          /\ attempt' = Attempt("refill", username, "returned",
                                refill_gained(auth_users[username], now))
  /\ UNCHANGED <<now, regions, region_connections, user_regions, users, alive,
                 hs, stack, turn, inbox, last_sent, result, nwrites,
                 pending_pixels, written, initial, placements, subscribed,
                 dirty_users, dirty_flush_task, saves, lifespan, db_errors,
                 saved>>

\* AuthenticationService.update_user_stats(user_id, pixels_placed)
update_user_stats(u, pixels_placed, t) ==
  LET v == IF pixels_placed > 0
           THEN [u EXCEPT !.total_pixels_placed = @ + pixels_placed,
                          !.last_pixel_placed_at = t,
                          !.experience_points = @ + pixels_placed * 10]
           ELSE u
  IN IF v.experience_points >= required_xp(v.user_level)
     THEN [v EXCEPT !.user_level = @ + 1,
                    !.max_pixel_bag_size = @ + 5,
                    !.pixel_bag_size = v.max_pixel_bag_size + 5]
     ELSE v

update_user_stats_call(user_id, pixels_placed) ==
  /\ turn = None
  /\ ops < MaxAccountOps
  /\ ops' = ops + 1
  /\ auth_users' =
       IF user_id \in DOMAIN auth_users
       THEN [auth_users EXCEPT ![user_id] = update_user_stats(@, pixels_placed, now)]
       ELSE auth_users
  /\ attempt' = Attempt("update_user_stats", user_id, "returned", 0)
  /\ UNCHANGED <<now, regions, region_connections, user_regions, users, alive,
                 hs, stack, turn, inbox, last_sent, result, nwrites,
                 pending_pixels, granted, written, initial, placements,
                 subscribed, dirty_users, dirty_flush_task, saves, lifespan,
                 db_errors, saved>>

\* XPService.add_xp: the loop that levels the user up while the experience
\* reaches the cached threshold (the coin rewards are left out)
RECURSIVE level_up_loop(_)
level_up_loop(u) ==
  IF u.experience_points >= u.xp_to_next_cache
  THEN level_up_loop([u EXCEPT
         !.experience_points = @ - u.xp_to_next_cache,
         !.user_level = @ + 1,
         !.xp_to_next_cache = xp_required_for(u.user_level + 1)])
  ELSE u

add_xp(u, amount) ==
  LET cached == IF u.xp_to_next_cache = 0
                THEN [u EXCEPT !.xp_to_next_cache = xp_required_for(u.user_level)]
                ELSE u
  IN level_up_loop([cached EXCEPT !.experience_points = @ + amount])

add_xp_call(username, amount) ==
  /\ turn = None
  /\ ops < MaxAccountOps
  /\ ops' = ops + 1
  /\ auth_users' =
       IF username \in DOMAIN auth_users
       THEN [auth_users EXCEPT ![username] = add_xp(@, amount)]
       ELSE auth_users
  /\ attempt' = Attempt("add_xp", username, "returned", 0)
  /\ UNCHANGED <<now, regions, region_connections, user_regions, users, alive,
                 hs, stack, turn, inbox, last_sent, result, nwrites,
                 pending_pixels, granted, written, initial, placements,
                 subscribed, dirty_users, dirty_flush_task, saves, lifespan,
                 db_errors, saved>>

\* AuthenticationService.update_user_field for the two bag fields, with the
\* value already converted by int()
update_user_field(u, field, value) ==
  IF field = "pixel_bag_size"
  THEN [u EXCEPT !.pixel_bag_size = value]
  ELSE [u EXCEPT !.max_pixel_bag_size = value,
                 !.pixel_bag_size = IF @ > value THEN value ELSE @]

\* POST /admin/update-user
update_user_data(username, field, value) ==
  /\ turn = None
  /\ ops < MaxAccountOps
  /\ ops' = ops + 1
  /\ auth_users' =
       IF username \in DOMAIN auth_users
       THEN [auth_users EXCEPT ![username] = update_user_field(@, field, value)]
       ELSE auth_users
  \* the session object of a connected user follows
  /\ users' =
       IF username \in DOMAIN auth_users /\ username \in DOMAIN users
       THEN [users EXCEPT ![username].pixel_bag =
               IF field = "pixel_bag_size" \/ @ > value THEN value ELSE @]
       ELSE users
  /\ attempt' = Attempt("update_user_field", username, "returned", 0)
  /\ UNCHANGED <<now, regions, region_connections, user_regions, alive,
                 hs, stack, turn, inbox, last_sent, result, nwrites,
                 pending_pixels, granted, written, initial, placements,
                 subscribed, dirty_users, dirty_flush_task, saves, lifespan,
                 db_errors, saved>>

\* LootBoxService._grant_item for an UPGRADE item
grant_upgrade(u, delta) ==
  IF delta # 0 THEN [u EXCEPT !.max_pixel_bag_size = @ + delta] ELSE u

grant_item(username, delta) ==
  /\ turn = None
  /\ ops < MaxAccountOps
  /\ ops' = ops + 1
  /\ username \in DOMAIN auth_users
  /\ auth_users' = [auth_users EXCEPT ![username] = grant_upgrade(@, delta)]
  /\ attempt' = Attempt("grant_item", username, "returned", 0)
  /\ UNCHANGED <<now, regions, region_connections, user_regions, users, alive,
                 hs, stack, turn, inbox, last_sent, result, nwrites,
                 pending_pixels, granted, written, initial, placements,
                 subscribed, dirty_users, dirty_flush_task, saves, lifespan,
                 db_errors, saved>>

\* ------------------------------------------------------------ protocol errors
\* an inbound message that json.loads rejects, or a pixel_place, chat_message,
\* user_position, viewport_regions or ping message that lacks a key the
\* handler subscripts: the exception reaches the except clause of
\* websocket_endpoint
receive_malformed(h) ==
  /\ Idle(h)
  /\ alive[h]
  /\ ops' = ops + 1
  /\ Raise(h, users, user_regions)
  /\ UNCHANGED <<now, auth_users, regions, region_connections, user_regions,
                 users, alive, inbox, last_sent, result, nwrites, pending_pixels, granted,
                 written, initial, attempt, placements,
                 subscribed, dirty_users, dirty_flush_task, saves,
                 lifespan, db_errors, saved>>

\* ------------------------------------------------------------ specifications
\* the steps of a coroutine between two inbound messages
Step(h) ==
  \/ SendOwn(h)
  \/ send_to_user(h)
  \/ broadcast_start(h)
  \/ broadcast_to_region(h)
  \/ broadcast_return(h)
  \/ disconnect_user(h)
  \/ disconnect_finish(h)
  \/ connect_user(h)
  \/ place_pixel_broadcast(h)
  \/ place_pixel_broadcast_done(h)
  \/ place_pixel_return(h)

Red == "#FF0000"
Blue == "#0000FF"
Pixel(c, color) == [x |-> c[1], y |-> c[2], color |-> color]

\* Spec: the resource bag under placements, bulk requests and passing time.
\* Inbound pixel_place messages: a valid one, one out of bounds, one malformed.
PlaceInputs ==
  {Pixel(InCenter, Red), Pixel(<<4100, CANVAS_SIZE>>, Red),
   Pixel(<<Malformed, 4100>>, Red)}

\* the pixels of inbound bulk_pixel_place messages
BulkPixels ==
  {Pixel(InCenter, Blue), Pixel(<<-1, 4100>>, Blue), Pixel(<<Absent, 4100>>, Blue)}

BulkInputs == UNION {[1..n -> BulkPixels] : n \in 1..MaxBulkLen}

Next ==
  \/ Tick
  \/ \E h \in Actors :
       \/ websocket_connect(h)
       \/ Drop(h)
       \/ receive_disconnect(h)
       \/ Step(h)
       \/ bulk_iteration(h)
       \/ bulk_finish(h)
       \/ ops < MaxOps /\ \E p \in PlaceInputs : place_pixel(h, p.x, p.y, p.color)
       \/ ops < MaxOps /\ \E pixels \in BulkInputs : bulk_pixel_place(h, pixels)

Spec == Init /\ [][Next]_vars

\* SpecPersist: Spec together with the task that flushes the dirty users.
NextPersist == Next \/ flush_later \/ flush_upsert \/ flush_commit

SpecPersist == Init /\ [][NextPersist]_vars

\* SpecBus: the broadcast bus under placements, subscription changes and
\* broken connections, with the clock standing still.
BusPlaceInputs == {Pixel(InCenter, Red), Pixel(InCenter, Blue), Pixel(InNext, Red)}

\* inbound viewport_regions messages: lists of regions without repetition
Next1 == <<Center[1], Center[2] + 1>>
ViewportInputs == {<< >>, <<Next1>>, <<Center, Next1>>}

NextBus ==
  \E h \in Users :
    \/ websocket_connect(h)
    \/ Drop(h)
    \/ receive_disconnect(h)
    \/ Step(h)
    \/ move_user_join(h)
    \/ ops < MaxBusOps /\ \E p \in BusPlaceInputs : place_pixel(h, p.x, p.y, p.color)
    \/ ops < MaxBusOps /\ \E v \in ViewportInputs : update_user_regions(h, v)
    \/ ops < MaxBusOps /\ \E r \in ModelRegions : move_user_to_region(h, r)

InitBus == Init /\ \A u \in Users : auth_users[u] = NewUser

SpecBus == InitBus /\ [][NextBus]_vars

\* SpecBulk: one bulk request of a session while another session connects,
\* listens and loses its connection, and time passes.
BulkBusPixels == {Pixel(InCenter, Blue), Pixel(InNext, Blue)}

BulkBusInputs == UNION {[1..n -> BulkBusPixels] : n \in 1..MaxBulkLen}

NextBulk ==
  \/ Tick
  \/ \E h \in Users :
       \/ websocket_connect(h)
       \/ Drop(h)
       \/ receive_disconnect(h)
       \/ SendOwn(h)
       \/ send_to_user(h)
       \/ broadcast_start(h)
       \/ broadcast_to_region(h)
       \/ broadcast_return(h)
       \/ disconnect_user(h)
       \/ disconnect_finish(h)
       \/ connect_user(h)
  \/ \E h \in Actors :
       \/ bulk_iteration(h)
       \/ bulk_finish(h)
       \/ ops < MaxBulkOps /\ \E pixels \in BulkBusInputs : bulk_pixel_place(h, pixels)

SpecBulk == InitBus /\ [][NextBulk]_vars

\* SpecSub: one session that repeats its viewport_regions message and places
\* pixels, with one message more than in SpecBus.
SubViewportInputs == {<<Center>>, <<Center, Next1>>}

NextSub ==
  \E h \in Actors :
    \/ websocket_connect(h)
    \/ Drop(h)
    \/ receive_disconnect(h)
    \/ Step(h)
    \/ ops < MaxSubOps /\ \E p \in BusPlaceInputs : place_pixel(h, p.x, p.y, p.color)
    \/ ops < MaxSubOps /\ \E v \in SubViewportInputs : update_user_regions(h, v)

SpecSub == InitBus /\ [][NextSub]_vars

\* SpecFlush: the tasks that write user records (the flush of the dirty
\* users, the saves of single placements) with their failures, one request
\* of a session, and the shutdown.
FlushPixels == {Pixel(InCenter, Blue), Pixel(<<-1, 4100>>, Blue)}

NextFlush ==
  \/ lifespan = "up" /\ Tick
  \/ lifespan = "up" /\ flush_later
  \/ lifespan = "up" /\ flush_upsert
  \/ lifespan = "up" /\ flush_commit
  \/ lifespan = "up" /\ flush_fails
  \/ lifespan = "up" /\ save_task
  \/ lifespan = "up" /\ save_task_fails
  \/ \E h \in Actors :
       \/ lifespan = "up" /\ websocket_connect(h)
       \/ lifespan = "up" /\ Drop(h)
       \/ lifespan = "up" /\ receive_disconnect(h)
       \/ lifespan = "up" /\ Step(h)
       \/ lifespan = "up" /\ bulk_iteration(h)
       \/ lifespan = "up" /\ bulk_finish(h)
       \/ lifespan = "up" /\ ops < MaxFlushOps
            /\ \E p \in FlushPixels : place_pixel(h, p.x, p.y, p.color)
       \/ lifespan = "up" /\ ops < MaxFlushOps
            /\ \E p \in FlushPixels : bulk_pixel_place(h, <<p>>)
  \/ shutdown

SpecFlush == InitBus /\ [][NextFlush]_vars

\* SpecThreshold: the flush of the dirty users while the bulk requests of
\* many accounts mark them dirty, so that the dirty set reaches its threshold.
NextThreshold ==
  \/ Tick
  \/ flush_later
  \/ flush_upsert
  \/ flush_commit
  \/ flush_fails
  \/ enqueue_dirty_other

SpecThreshold == InitBus /\ [][NextThreshold]_vars

\* SpecProtocol: sessions whose clients also send messages the handlers
\* cannot process.
OutOfGrid == <<REGIONS_PER_SIDE, 0>>

\* inbound viewport_regions messages that name a region outside the grid
ProtocolViewports == {<<OutOfGrid>>, <<Center, OutOfGrid>>}

NextProtocol ==
  \E h \in Users :
    \/ websocket_connect(h)
    \/ Drop(h)
    \/ receive_disconnect(h)
    \/ Step(h)
    \/ move_user_join(h)
    \/ ops < MaxProtocolOps /\ receive_malformed(h)
    \/ ops < MaxProtocolOps
         /\ \E p \in PlaceInputs : place_pixel(h, p.x, p.y, p.color)
    \/ ops < MaxProtocolOps
         /\ \E r \in ModelRegions \cup {OutOfGrid} : move_user_to_region(h, r)
    \/ ops < MaxProtocolOps
         /\ \E v \in ProtocolViewports : update_user_regions(h, v)

SpecProtocol == InitBus /\ [][NextProtocol]_vars

\* SpecAtomic: two connections of one user that place pixels at the same
\* time, single and in bulk, with every await of a placement as a step.
SameUser == "u1"

\* both connections have authenticated as SameUser and are in their message
\* loops
InitAtomic ==
  /\ now = 0
  /\ auth_users \in
       {[u \in Users |->
           IF u = SameUser THEN [NewUser EXCEPT !.pixel_bag_size = b]
           ELSE NewUser]
        : b \in InitBags}
  /\ regions = [r \in ModelRegions |-> << >>]
  /\ region_connections =
       [r \in ModelRegions |-> IF r = Center THEN {SameUser} ELSE {}]
  /\ user_regions = With(<< >>, SameUser, {Center})
  /\ users = With(<< >>, SameUser, [current_region |-> Center,
                                     pixel_bag |-> INITIAL_PIXEL_BAG])
  /\ alive = [c \in Users |-> TRUE]
  /\ hs = [c \in Users |-> "on"]
  /\ stack = [c \in Users |-> << >>]
  /\ turn = None
  /\ inbox = [u \in Users |-> << >>]
  /\ last_sent = [c \in Users |-> NoMessage]
  /\ result = [c \in Users |-> None]
  /\ ops = 0
  /\ nwrites = 0
  /\ granted = [u \in Users |-> 0]
  /\ written = [u \in Users |-> 0]
  /\ initial = [u \in Users |-> auth_users[u].pixel_bag_size]
  /\ attempt = Attempt("none", None, "none", 0)
  /\ placements = << >>
  /\ subscribed = [u \in Users |-> NeverSubscribed]
  /\ dirty_users = {}
  /\ dirty_flush_task = NoTask
  /\ saves = 0
  /\ saved = 0
  /\ pending_pixels = 0
  /\ db_errors = {}
  /\ lifespan = "up"

AtomicPixels == {Pixel(InCenter, Red), Pixel(<<4100, CANVAS_SIZE>>, Red)}

AtomicBulkInputs == UNION {[1..n -> AtomicPixels] : n \in 1..MaxBulkLen}

NextAtomic ==
  \/ Tick
  \/ \E c \in Users :
       \/ SendOwn(c)
       \/ send_to_user(c)
       \/ broadcast_start(c)
       \/ broadcast_to_region(c)
       \/ broadcast_return(c)
       \/ place_pixel_broadcast(c)
       \/ place_pixel_broadcast_done(c)
       \/ place_pixel_return(c)
       \/ canvas_place(c)
       \/ place_settle(c)
       \/ bulk_consume(c)
       \/ bulk_settle(c)
       \/ bulk_end(c)
       \/ ops < MaxAtomicOps
            /\ \E p \in AtomicPixels : place_consume(c, SameUser, p.x, p.y, p.color)
       \/ ops < MaxAtomicOps
            /\ \E pixels \in AtomicBulkInputs : bulk_begin(c, SameUser, pixels)

SpecAtomic == InitAtomic /\ [][NextAtomic]_vars

\* SpecCanvas: the canvas store under the placements of two users, single and
\* (for the actor) in bulk, with subscriptions and disconnects in between. Inbound pixels: two
\* colours at one coordinate, a second region, one coordinate just outside
\* the canvas on each side of each axis, and a non-numeric one.
OutOfRange ==
  {<<CANVAS_SIZE, 4100>>, <<4100, CANVAS_SIZE>>, <<-1, 4100>>, <<4100, -1>>}

CanvasPixels ==
  {Pixel(InCenter, Red), Pixel(InCenter, Blue), Pixel(InNext, Red),
   Pixel(<<Malformed, 4100>>, Red)}
  \cup {Pixel(c, Red) : c \in OutOfRange}

NextCanvas ==
  \/ background_save
  \/ \E h \in Users :
       \/ websocket_connect(h)
       \/ Drop(h)
       \/ receive_disconnect(h)
       \/ Step(h)
       \/ canvas_place(h)
       \/ place_settle(h)
       \/ bulk_consume(h)
       \/ bulk_settle(h)
       \/ bulk_end(h)
       \/ ops < MaxCanvasOps
            /\ \E p \in CanvasPixels : place_consume(h, h, p.x, p.y, p.color)
       \/ ops < MaxCanvasOps /\ h \in Actors
            /\ \E p \in CanvasPixels : bulk_begin(h, h, <<p>>)
       \/ ops < MaxCanvasOps
            /\ \E v \in ViewportInputs : update_user_regions(h, v)

SpecCanvas == InitBus /\ [][NextCanvas]_vars

\* SpecAccount: the user records under refill calls, the two level-up
\* systems, admin updates of the bag fields and loot-box upgrades, as time
\* passes. No session is connected.
AccountUser(bag, anchor) ==
  [pixel_bag_size |-> bag,
   max_pixel_bag_size |-> MAX_PIXEL_BAG,
   total_pixels_placed |-> 0,
   last_pixel_placed_at |-> NoTime,
   last_bag_refill_at |-> anchor,
   user_level |-> 1,
   experience_points |-> 0,
   xp_to_next_cache |-> 0]

\* a username AuthenticationService.users does not hold
Unknown == "nobody"

InitAccount ==
  /\ now = 0
  /\ auth_users \in
       {[u \in Users |-> IF u \in Actors THEN AccountUser(b, a)
                         ELSE AccountUser(INITIAL_PIXEL_BAG, 0)]
        : b \in InitBags, a \in {NoTime, 0}}
  /\ regions = [r \in ModelRegions |-> << >>]
  /\ region_connections = [r \in ModelRegions |-> {}]
  /\ user_regions = << >>
  /\ users = << >>
  /\ alive = [u \in Users |-> FALSE]
  /\ hs = [u \in Users |-> "new"]
  /\ stack = [u \in Users |-> << >>]
  /\ turn = None
  /\ inbox = [u \in Users |-> << >>]
  /\ last_sent = [u \in Users |-> NoMessage]
  /\ result = [u \in Users |-> None]
  /\ ops = 0
  /\ nwrites = 0
  /\ granted = [u \in Users |-> 0]
  /\ written = [u \in Users |-> 0]
  /\ initial = [u \in Users |-> auth_users[u].pixel_bag_size]
  /\ attempt = Attempt("none", None, "none", 0)
  /\ placements = << >>
  /\ subscribed = [u \in Users |-> NeverSubscribed]
  /\ dirty_users = {}
  /\ dirty_flush_task = NoTask
  /\ saves = 0
  /\ saved = 0
  /\ pending_pixels = 0
  /\ db_errors = {}
  /\ lifespan = "up"

\* pixels_placed of update_user_stats, amounts of add_xp, admin values for a
\* bag field, max_pixel_bag_delta of the upgrade items
StatsInputs == {1, 100}
XpInputs == {10, 60}
FieldInputs == {-1, 2, 12}
UpgradeInputs == {5, 10}

NextAccount ==
  \/ Tick
  \/ \E username \in Actors \cup {Unknown} : refill_call(username)
  \/ \E n \in StatsInputs : update_user_stats_call("u1", n)
  \/ \E n \in XpInputs : add_xp_call("u1", n)
  \/ \E f \in {"pixel_bag_size", "max_pixel_bag_size"}, v \in FieldInputs :
       update_user_data("u1", f, v)
  \/ \E d \in UpgradeInputs : grant_item("u1", d)

SpecAccount == InitAccount /\ [][NextAccount]_vars

\* SpecPair: two users whose sessions are open place pixels at one
\* coordinate, each in its own colour, single and in bulk, as time passes.
InitPair ==
  /\ now = 0
  /\ auth_users = [u \in Users |-> NewUser]
  /\ regions = [r \in ModelRegions |-> << >>]
  /\ region_connections =
       [r \in ModelRegions |-> IF r = Center THEN Users ELSE {}]
  /\ user_regions = [u \in Users |-> {Center}]
  /\ users = [u \in Users |-> [current_region |-> Center,
                                pixel_bag |-> INITIAL_PIXEL_BAG]]
  /\ alive = [u \in Users |-> TRUE]
  /\ hs = [u \in Users |-> "on"]
  /\ stack = [u \in Users |-> << >>]
  /\ turn = None
  /\ inbox = [u \in Users |-> << >>]
  /\ last_sent = [u \in Users |-> NoMessage]
  /\ result = [u \in Users |-> None]
  /\ ops = 0
  /\ nwrites = 0
  /\ granted = [u \in Users |-> 0]
  /\ written = [u \in Users |-> 0]
  /\ initial = [u \in Users |-> auth_users[u].pixel_bag_size]
  /\ attempt = Attempt("none", None, "none", 0)
  /\ placements = << >>
  /\ subscribed = [u \in Users |-> NeverSubscribed]
  /\ dirty_users = {}
  /\ dirty_flush_task = NoTask
  /\ saves = 0
  /\ saved = 0
  /\ pending_pixels = 0
  /\ db_errors = {}
  /\ lifespan = "up"

\* the colour each user paints in
ColourOf(h) == IF h = "u1" THEN Red ELSE Blue

\* the pixels a user sends: one valid, one out of bounds
PairPixels(h) ==
  {Pixel(InCenter, ColourOf(h)), Pixel(<<-1, 4100>>, ColourOf(h))}

PairBulkInputs(h) == UNION {[1..n -> PairPixels(h)] : n \in 1..MaxBulkLen}

NextPair ==
  \/ Tick
  \/ \E h \in Users :
       \/ SendOwn(h)
       \/ broadcast_start(h)
       \/ broadcast_to_region(h)
       \/ broadcast_return(h)
       \/ place_pixel_broadcast(h)
       \/ place_pixel_broadcast_done(h)
       \/ place_pixel_return(h)
       \/ bulk_iteration(h)
       \/ bulk_finish(h)
       \/ ops < MaxPairOps
            /\ \E p \in PairPixels(h) : place_pixel(h, p.x, p.y, p.color)
       \/ ops < MaxPairOps
            /\ \E pixels \in PairBulkInputs(h) : bulk_pixel_place(h, pixels)

SpecPair == InitPair /\ [][NextPair]_vars

\* ------------------------------------------------------------ claims: the bag
\* C1: for every user, after every step of any sequence of refills, single
\* placements (successful or failed) and bulk iterations (rollbacks included),
\* 0 <= pixel_bag_size <= max_pixel_bag_size.
C1_BagWithinBounds ==
  \A u \in Users :
    /\ 0 <= auth_users[u].pixel_bag_size
    /\ auth_users[u].pixel_bag_size <= auth_users[u].max_pixel_bag_size

\* a failed write is rolled back with the bag refilled to its ceiling
C1_RollbackAtCeiling ==
  /\ attempt.outcome = "failed"
  /\ attempt.bag = MAX_PIXEL_BAG
  /\ auth_users[attempt.user].pixel_bag_size = MAX_PIXEL_BAG
  /\ granted[attempt.user] > 0

\* C2: every successful canvas write is paid for by exactly one token of the
\* acting user: at every state (every exit of the bulk loop included)
\* pixel_bag_size = initial value + refill grants - successful writes, and a
\* step that writes finds at least one token after its refill and takes one.
C2_TokenAccounting ==
  /\ [](\A u \in Users :
          auth_users[u].pixel_bag_size = initial[u] + granted[u] - written[u])
  /\ [][/\ nwrites' - nwrites \in {0, 1}
        /\ regions' # regions => nwrites' = nwrites + 1
        /\ \A u \in Users :
             LET before == refill_user_pixels(auth_users[u], now) IN
               IF written'[u] # written[u]
               THEN /\ written'[u] = written[u] + 1
                    /\ nwrites' = nwrites + 1
                    /\ before.pixel_bag_size >= 1
                    /\ auth_users'[u].pixel_bag_size = before.pixel_bag_size - 1
               ELSE auth_users'[u].pixel_bag_size
                      \in {auth_users[u].pixel_bag_size, before.pixel_bag_size}
       ]_vars

\* the bulk loop left on its duration guard after a write, tokens remaining
C2_BulkTimedOut ==
  \E u \in Users :
    /\ last_sent[u].type = "bulk_complete"
    /\ last_sent[u].placed >= 1
    /\ last_sent[u].attempted < last_sent[u].requested
    /\ last_sent[u].remaining > 0
    /\ last_sent[u].remaining = auth_users[u].pixel_bag_size

\* C3: in the single-placement path, when the token was consumed and
\* CanvasService.place_pixel returns False or raises, the bag is restored to
\* its value before the consume, total_pixels_placed, last_pixel_placed_at and
\* the canvas are unchanged, no pixel_update is broadcast, and place_pixel
\* returns False.
C3_SinglePathRollback ==
  [][\A h \in Users : \A p \in PlaceInputs :
       LET before == refill_user_pixels(auth_users[h], now) IN
         (/\ place_pixel(h, p.x, p.y, p.color)
          /\ before.pixel_bag_size >= 1
          /\ place_outcome(regions, p.x, p.y) # "true")
         => /\ auth_users'[h].pixel_bag_size = before.pixel_bag_size
            /\ auth_users'[h].total_pixels_placed
                 = auth_users[h].total_pixels_placed
            /\ auth_users'[h].last_pixel_placed_at
                 = auth_users[h].last_pixel_placed_at
            /\ regions' = regions
            /\ nwrites' = nwrites
            /\ inbox' = inbox
            /\ stack'[h] = <<RetFrame("False"), RFrame(BagUpdate)>>
    ]_vars

\* the spec's example: a bag of 5 is consumed to 4, the write fails, the
\* rollback restores 5 and place_pixel has returned False
C3_RolledBackFive ==
  /\ attempt.path = "single"
  /\ attempt.outcome = "failed"
  /\ attempt.bag = 5
  /\ auth_users[attempt.user].pixel_bag_size = 5
  /\ result[attempt.user] = "False"
  /\ stack[attempt.user] = << >>

\* C4: refill_user_pixels with elapsed = now - anchor: below the interval it
\* returns 0 and changes nothing; otherwise with whole = floor(elapsed /
\* interval) it returns min(whole, max - current), adds that to the bag and
\* advances the anchor by exactly whole * interval, so that elapsed mod
\* interval is preserved.
C4_RefillArithmetic ==
  \A h \in Users :
    LET u == auth_users[h]
        elapsed == now - u.last_bag_refill_at
        whole == elapsed \div PIXEL_REFILL_RATE
        grant == Min(whole, u.max_pixel_bag_size - u.pixel_bag_size)
        after == refill_user_pixels(u, now)
    IN u.last_bag_refill_at # NoTime =>
         IF elapsed < PIXEL_REFILL_RATE
         THEN after = u /\ refill_gained(u, now) = 0
         ELSE /\ refill_gained(u, now) = grant
              /\ after.pixel_bag_size = u.pixel_bag_size + grant
              /\ after.last_bag_refill_at
                   = u.last_bag_refill_at + whole * PIXEL_REFILL_RATE
              /\ now - after.last_bag_refill_at = elapsed % PIXEL_REFILL_RATE

\* the spec's example: current 3, elapsed 7 gives grant 2, current 5, anchor + 6
C4_SevenSeconds ==
  \E h \in Users :
    /\ now = 7
    /\ initial[h] = 3
    /\ granted[h] = 2
    /\ written[h] = 0
    /\ auth_users[h].pixel_bag_size = 5
    /\ auth_users[h].last_bag_refill_at = 6

\* C5: a placement attempt first applies the refill; with the bag then below 1
\* it returns False (the bulk loop stops) with the bag, the canvas and
\* total_pixels_placed unchanged and no pixel update published; otherwise the
\* bag is decremented by exactly 1 before the canvas write is attempted.
C5_ConsumePrecondition ==
  [][\A h \in Users :
       LET before == refill_user_pixels(auth_users[h], now)
           quiet == /\ regions' = regions
                    /\ nwrites' = nwrites
                    /\ inbox' = inbox
                    /\ auth_users'[h] = before
           took(out) ==
             auth_users'[h].pixel_bag_size
               = before.pixel_bag_size - (IF out = "true" THEN 1 ELSE 0)
       IN /\ \A p \in PlaceInputs :
               place_pixel(h, p.x, p.y, p.color) =>
                 IF before.pixel_bag_size < 1
                 THEN /\ quiet
                      /\ stack'[h] = <<SFrame(h), RetFrame("False"),
                                       RFrame(BagUpdate)>>
                 ELSE /\ took(place_outcome(regions, p.x, p.y))
                      /\ consume(before).pixel_bag_size
                           = before.pixel_bag_size - 1
          /\ bulk_iteration(h) =>
               /\ before.pixel_bag_size >= 1
               /\ took(IF bulk_outcome(regions, Head(Top(h).px)) = "escape"
                       THEN "true"
                       ELSE bulk_outcome(regions, Head(Top(h).px)))
          /\ (bulk_finish(h) /\ before.pixel_bag_size < 1) =>
               /\ quiet
               /\ \A i \in DOMAIN stack'[h] :
                    (/\ stack'[h][i].k = "R"
                     /\ stack'[h][i].msg.type = "bulk_complete")
                    => /\ stack'[h][i].msg.attempted = Top(h).attempted
                       /\ stack'[h][i].msg.placed = Top(h).placed
                       /\ stack'[h][i].msg.remaining = 0
    ]_vars

\* an attempt met an empty bag after earlier writes and has returned False
C5_EmptyBagRefused ==
  /\ attempt.outcome = "empty"
  /\ written[attempt.user] >= 1
  /\ auth_users[attempt.user].pixel_bag_size = 0
  /\ result[attempt.user] = "False"
  /\ stack[attempt.user] = << >>

\* ------------------------------------------------------------ claims: the bus
\* the region an update touches
Touched(upd) == get_region_coords(upd.x, upd.y)

\* how often client t has been sent update w through region r
Receipts(t, w, r) ==
  Cardinality({<<i, a>> \in (DOMAIN inbox[t]) \X (1..(MaxBulkLen + 1)) :
                 /\ a \in DOMAIN inbox[t][i].updates
                 /\ inbox[t][i].updates[a].wid = w
                 /\ inbox[t][i].via = r})

\* C6: for any two successful mutations of the same region, every subscriber
\* receives the corresponding updates in the order in which CanvasService
\* applied them (wid is that order).
C6_PerRegionOrder ==
  \A t \in Users : \A i, j \in DOMAIN inbox[t] :
    i < j =>
      \A a \in DOMAIN inbox[t][i].updates, b \in DOMAIN inbox[t][j].updates :
        LET first == inbox[t][i].updates[a]
            second == inbox[t][j].updates[b]
        IN Touched(first) = Touched(second) => first.wid <= second.wid

\* C7: a single logical update is delivered at most once to each session, even
\* when the session is subscribed to several of the regions it is published to.
C7_AtMostOnce ==
  \A t \in Users : \A w \in DOMAIN placements :
    Cardinality({r \in ModelRegions : Receipts(t, w, r) > 0}) <= 1
      /\ \A r \in ModelRegions : Receipts(t, w, r) <= 1

C9_ReachesEverySubscriber ==
  \A w \in DOMAIN placements :
    LET pl == placements[w] IN
      (pl.path = "single" /\ stack[pl.user] = << >>)
      => \A t \in pl.audience : alive[t] => Receipts(t, w, pl.region) = 1

\* C10: a failed send to one subscriber does not keep a broadcast from the
\* other subscribers (the call is not abandoned while a reachable subscriber
\* is still to be sent to), and the failing subscriber's cleanup leaves it in
\* no region's subscriber set, not in user_regions and not in the user service.
C10_FailureIsolation ==
  [][\A h \in Users :
       /\ \A i \in DOMAIN stack[h] :
            LET f == stack[h][i] IN
              (/\ f.k = "B"
               /\ \E t \in f.todo \ {f.ex} : alive[t] /\ t \in DOMAIN users)
              => \E j \in DOMAIN stack'[h] :
                   /\ stack'[h][j].k = "B"
                   /\ stack'[h][j].r = f.r
                   /\ stack'[h][j].msg = f.msg
                   /\ stack'[h][j].copy = f.copy
                   /\ Len(stack'[h]) - j = Len(stack[h]) - i
       /\ (disconnect_finish(h) /\ Top(h).u # h)
          => /\ Top(h).u \notin DOMAIN users'
             /\ Top(h).u \notin DOMAIN user_regions'
             /\ \A r \in DOMAIN region_connections :
                  Top(h).u \notin region_connections'[r]
    ]_vars

\* ------------------------------------------------ claims: the subscriptions
\* the regions whose subscriber set holds the session
SubscribedTo(rc, u) == {r \in DOMAIN rc : u \in rc[r]}

\* C11: a viewport_regions message of a registered session with the region
\* list S leaves the session's entry of user_regions equal to the set of S,
\* leaves the session in the subscriber set of a region exactly when the
\* region is in S, and changes no other session's entry or memberships.
C11_SubscribeUpdatesBothMaps ==
  [][\A h \in Users : \A v \in ViewportInputs :
       update_user_regions(h, v) /\ h \in DOMAIN users =>
         LET S == {v[i] : i \in DOMAIN v} IN
           /\ h \in DOMAIN user_regions'
           /\ user_regions'[h] = S
           /\ SubscribedTo(region_connections', h) = S
           /\ \A u \in Users \ {h} :
                /\ SubscribedTo(region_connections', u) =
                     SubscribedTo(region_connections, u)
                /\ (u \in DOMAIN user_regions) = (u \in DOMAIN user_regions')
                /\ u \in DOMAIN user_regions =>
                     user_regions'[u] = user_regions[u]]_vars

\* C12: when disconnect_user(session) has run to its end the session is in
\* no region's subscriber set and has no entry in user_regions, whatever
\* connect, viewport_regions and user_position messages came before.
C12_DisconnectRemovesSession ==
  [][\A h \in Users :
       disconnect_finish(h)
         /\ ~(Top(h).tracked /\ Top(h).u \notin DOMAIN user_regions) =>
         LET u == Top(h).u IN
           /\ SubscribedTo(region_connections', u) = {}
           /\ u \notin DOMAIN user_regions']_vars

\* how often client t has been sent update w, through whatever region
SentCount(t, w) ==
  Cardinality({<<i, a>> \in (DOMAIN inbox[t]) \X (1..(MaxBulkLen + 1)) :
                 /\ a \in DOMAIN inbox[t][i].updates
                 /\ inbox[t][i].updates[a].wid = w})

\* write w is the first write in its region after the latest viewport_regions
\* message of session t
NextPublishFor(t, w) ==
  /\ subscribed[t].at < w
  /\ \A w2 \in DOMAIN placements :
       (subscribed[t].at < w2 /\ w2 < w)
         => placements[w2].region # placements[w].region

\* once the placer's handler is through with the next single placement in a
\* region of the set a session has subscribed to twice, that session (with a
\* working connection) has been sent the update exactly once
SentOnceAfterResubscribe ==
  \A t \in Users : \A w \in DOMAIN placements :
    LET pl == placements[w] IN
      (/\ pl.path = "single"
       /\ stack[pl.user] = << >>
       /\ subscribed[t].times = 2
       /\ pl.region \in subscribed[t].last
       /\ NextPublishFor(t, w)
       /\ alive[t]
       /\ t \in DOMAIN users)
      => SentCount(t, w) = 1

\* C13: a viewport_regions message that repeats the region set of the
\* session's previous one changes neither region_connections nor
\* user_regions, and the next placement published to a region of that set is
\* delivered to the session exactly once.
C13_IdempotentSubscribe ==
  [][/\ \A h \in Users : \A v \in ViewportInputs \cup SubViewportInputs :
          (/\ update_user_regions(h, v)
           /\ h \in DOMAIN users
           /\ subscribed[h].times > 0
           /\ subscribed[h].last = {v[i] : i \in DOMAIN v})
          => /\ region_connections' = region_connections
             /\ user_regions' = user_regions
     /\ SentOnceAfterResubscribe'
    ]_vars

\* ------------------------------------------------ claims: the bulk loop
\* the messages of type bulk_complete that are sent or about to be sent
BulkReports ==
  {last_sent[h] : h \in {u \in Users : last_sent[u].type = "bulk_complete"}}
    \cup UNION {{stack[h][i].msg :
                   i \in {j \in DOMAIN stack[h] :
                            /\ stack[h][j].k = "R"
                            /\ stack[h][j].msg.type = "bulk_complete"}}
                : h \in Users}

\* C14: a bulk request of n operations with valid coordinates, started with
\* k < n tokens and with no regeneration during the batch (no refill of the
\* loop grants a token, and the loop is not cut off by the duration guard,
\* which takes more than a refill interval), leaves its loop
\* when the bag is empty, the handler goes on (no exception), and its
\* bulk_complete reports requested = n, attempted = k, placed = k and
\* remaining = 0; every bulk loop and every bulk_complete has
\* placed <= attempted <= requested.
C14_PartialBulk ==
  /\ [][\A h \in Users :
          bulk_finish(h) =>
            LET f == Top(h)
                report == stack'[h][Len(stack'[h])]
                n == Len(f.pixels)
                k == f.starting_available
            IN (/\ \A i \in DOMAIN f.pixels :
                     is_valid_position(f.pixels[i].x, f.pixels[i].y)
                /\ k < n
                /\ ~duration_exceeded(f.start, now)
                /\ f.regenerated = 0
                /\ auth_users'[h].pixel_bag_size = auth_users[h].pixel_bag_size)
               => /\ auth_users[h].pixel_bag_size = 0
                  /\ hs'[h] = hs[h]
                  /\ report.k = "R"
                  /\ report.msg = BulkComplete(n, k, k, 0)
     ]_vars
  /\ [](/\ \A m \in BulkReports :
             m.placed <= m.attempted /\ m.attempted <= m.requested
        /\ \A h \in Users : \A i \in DOMAIN stack[h] :
             stack[h][i].k = "K"
               => /\ stack[h][i].placed <= stack[h][i].attempted
                  /\ stack[h][i].attempted <= stack[h][i].requested)

\* the loop of a request of two valid operations that began with one token
\* has made one attempt, placed it, seen no regeneration, and stands at its
\* exit with an empty bag and one operation left
C14_OneOfTwoPlaced ==
  \E h \in Users :
    /\ stack[h] # << >>
    /\ Top(h).k = "K"
    /\ Len(Top(h).pixels) = 2
    /\ \A i \in DOMAIN Top(h).pixels :
         is_valid_position(Top(h).pixels[i].x, Top(h).pixels[i].y)
    /\ Top(h).starting_available = 1
    /\ Top(h).attempted = 1
    /\ Top(h).placed = 1
    /\ Top(h).regenerated = 0
    /\ Len(Top(h).px) = 1
    /\ auth_users[h].pixel_bag_size = 0
    /\ refill_gained(auth_users[h], now) = 0

\* C15: when the write of a bulk iteration fails (place_pixel returns False or
\* an exception is raised in the attempt, as for an operation out of bounds
\* or a malformed one), the bag is back at its value before the consume, the
\* operation is counted as attempted and not as placed, the batch and the
\* canvas are unchanged, and the loop goes on with the next operation.
C15_BulkRollback ==
  [][\A h \in Users :
       (bulk_iteration(h) /\ bulk_outcome(regions, Head(Top(h).px)) # "true")
       => LET f == Top(h)
              before == refill_user_pixels(auth_users[h], now)
          IN /\ auth_users'[h].pixel_bag_size = before.pixel_bag_size
             /\ auth_users'[h].total_pixels_placed
                  = auth_users[h].total_pixels_placed
             /\ regions' = regions
             /\ stack'[h] # << >>
             /\ Head(stack'[h]).k = "K"
             /\ Head(stack'[h]).attempted = f.attempted + 1
             /\ Head(stack'[h]).placed = f.placed
             /\ Head(stack'[h]).batch = f.batch
             /\ Head(stack'[h]).px = Tail(f.px)
    ]_vars

\* a pending or sent bulk_complete of a loop that was cut off by the duration
\* guard: operations were left and so were tokens
CutOffReport(m) ==
  /\ m.type = "bulk_complete"
  /\ m.attempted < m.requested
  /\ m.remaining > 0

\* C16: no iteration of the bulk loop starts once more than
\* MAX_BULK_DURATION_MS have passed since the request began; when the loop is
\* cut off the handler raises nothing and has a bulk_complete with
\* placed < requested to send, and it does send it: while the client's
\* connection works, the pending report is not dropped.
C16_DurationCutoff ==
  [][\A h \in Users :
       /\ bulk_iteration(h) => ~duration_exceeded(Top(h).start, now)
       /\ (bulk_finish(h) /\ Top(h).px # << >>
             /\ duration_exceeded(Top(h).start, now))
          => /\ hs'[h] = hs[h]
             /\ stack'[h][Len(stack'[h])].k = "R"
             /\ stack'[h][Len(stack'[h])].msg.type = "bulk_complete"
             /\ stack'[h][Len(stack'[h])].msg.placed
                  < stack'[h][Len(stack'[h])].msg.requested
       /\ \A i \in DOMAIN stack[h] :
            (/\ stack[h][i].k = "R"
             /\ CutOffReport(stack[h][i].msg)
             /\ alive[h])
            => \/ \E j \in DOMAIN stack'[h] : stack'[h][j] = stack[h][i]
               \/ last_sent'[h] = stack[h][i].msg
    ]_vars

\* C17: after a bulk loop the handler has one pixel_batch_update to publish
\* per distinct region touched by the batch, carrying exactly the updates of
\* the batch that fall in that region, and none when nothing was placed; and
\* each of them is published: a pending one is not dropped before its
\* broadcast_to_region call begins.
C17_OneBroadcastPerRegion ==
  [][\A h \in Users :
       /\ bulk_finish(h) =>
            LET batch == Top(h).batch
                touched == {Touched(batch[i]) : i \in DOMAIN batch}
                calls == SelectSeq(stack'[h], LAMBDA fr : fr.k = "B0")
            IN /\ Len(calls) = Cardinality(touched)
               /\ \A r \in touched :
                    \E i \in DOMAIN calls :
                      /\ calls[i].r = r
                      /\ calls[i].msg = PixelBatchUpdate(
                           SelectSeq(batch, LAMBDA upd : Touched(upd) = r))
               /\ batch = << >> => calls = << >>
       /\ \A i \in DOMAIN stack[h] :
            (/\ stack[h][i].k = "B0"
             /\ stack[h][i].msg.type = "pixel_batch_update")
            => \/ \E j \in DOMAIN stack'[h] : stack'[h][j] = stack[h][i]
               \/ i = 1 /\ broadcast_start(h)
    ]_vars

\* ------------------------------------------------ claims: the persistence
\* C18: when the bulk loop has finished, a flush of the dirty users is started
\* at once: the acting user is not left dirty behind a flush task that still
\* sleeps its debounce delay (or behind none at all).
C18_ForcedFlushAfterBulk ==
  [][\A h \in Users :
       bulk_finish(h) =>
         \/ h \notin dirty_users'
         \/ /\ dirty_flush_task'.state = "pending"
            /\ dirty_flush_task'.delay = 0
    ]_vars

\* C19: a single placement marks the acting user dirty for the batched flush
\* and creates no persistence write of its own, so the number of writes does
\* not grow with the number of placements.
C19_PlacementOnlyMarksDirty ==
  [][\A h \in Users : \A p \in PlaceInputs \cup BusPlaceInputs :
       place_pixel(h, p.x, p.y, p.color) =>
         /\ saves' = saves
         /\ attempt'.outcome # "empty" => h \in dirty_users'
    ]_vars

\* C20: whenever a user is dirty, a flush that will include it is scheduled:
\* a flush task that has not run yet, sleeping no longer than the debounce
\* delay, and not sleeping at all once the dirty set has reached the
\* threshold; this holds for every batch, also one that begins after an
\* earlier flush task has completed.
C20_DirtyImpliesFlushScheduled ==
  dirty_users # {} =>
    /\ dirty_flush_task.state = "pending"
    /\ dirty_flush_task.delay <= DIRTY_FLUSH_DELAY
    /\ Cardinality(dirty_users) >= DIRTY_FLUSH_THRESHOLD
         => dirty_flush_task.delay = 0

\* ------------------------------------------------ claims: the flush
\* the users a running flush has taken from the dirty set
InFlight(task) == IF task.state = "flushing" THEN task.dirty ELSE {}

\* C21: a flush takes every dirty user in one batch and clears the set; a
\* user leaves the dirty set only into the batch of a flush, and is in
\* neither the batch nor the dirty set any more only when the flush has
\* upserted it and commits (or when the database refuses the batch), also
\* when the threshold makes _schedule_dirty_flush cancel the flush task
\* while it is in progress; a user marked during a flush stays dirty.
C21_FlushPersistsBatch ==
  [][/\ flush_later =>
          /\ dirty_users' = {}
          /\ InFlight(dirty_flush_task') = dirty_users
     /\ \A a \in DOMAIN auth_users \cup Others :
          /\ (a \in dirty_users /\ a \notin dirty_users')
               => a \in InFlight(dirty_flush_task')
          /\ (a \in InFlight(dirty_flush_task)
                /\ a \notin InFlight(dirty_flush_task')
                /\ a \notin dirty_users')
               => \/ a \in dirty_flush_task.upserted /\ flush_commit
                  \/ flush_fails
          /\ (a \in dirty_users /\ dirty_flush_task.state = "flushing"
                /\ dirty_flush_task'.state # "pending")
               => a \in dirty_users'
    ]_vars

\* C22: when an upsert fails during a flush of the dirty users or during a
\* save, the error is caught and printed, the bag, the statistics and the
\* canvas in memory stay as they were, no handler is stopped by it, and
\* place_pixel, the bulk loop and its enqueue_dirty go on without raising
\* whatever has failed before.
C22_PersistenceFailureContained ==
  [][/\ (flush_fails \/ save_task_fails) =>
          /\ db_errors' # {}
          /\ db_errors \subseteq db_errors'
          /\ auth_users' = auth_users
          /\ regions' = regions
          /\ hs' = hs
          /\ stack' = stack
          /\ turn' = turn
          /\ dirty_users' = dirty_users
     /\ \A h \in Users :
          /\ \A p \in FlushPixels :
               place_pixel(h, p.x, p.y, p.color)
                 => hs'[h] = "on" /\ stack'[h] # << >>
          /\ (bulk_iteration(h) \/ bulk_finish(h))
               => /\ hs'[h] = "on"
                  /\ stack'[h] # << >>
                  /\ h \in dirty_users'
    ]_vars

\* a flush of the dirty users has failed, and the bulk request of a session
\* is completed and reported, with the bag and the statistics of its one
\* placement in memory
C22_BulkReportedAfterFailedFlush ==
  \E h \in Users :
    /\ "Dirty user batch flush failed" \in db_errors
    /\ last_sent[h] = BulkComplete(1, 1, 1, INITIAL_PIXEL_BAG - 1)
    /\ auth_users[h].pixel_bag_size = INITIAL_PIXEL_BAG - 1
    /\ auth_users[h].total_pixels_placed = 1
    /\ stack[h] = << >>
    /\ hs[h] = "on"

\* C23: once the shutdown part of lifespan has completed, no user is left in
\* the dirty set and none in the batch of a flush that has not committed:
\* every user that was dirty has been upserted.
C23_ShutdownFlushesDirtyUsers ==
  lifespan = "down" =>
    /\ dirty_users = {}
    /\ InFlight(dirty_flush_task) = {}

\* ------------------------------------------------ claims: the protocol
\* C24: a session whose connection works stays in its message loop and stays
\* registered, whatever message it receives and whatever its handlers meet:
\* only a transport disconnect ends the loop.
C24_MalformedMessageDropped ==
  [][\A h \in Users :
       (hs[h] = "on" /\ alive[h] /\ h \in DOMAIN users)
       => /\ hs'[h] = "on"
          /\ h \in DOMAIN users'
    ]_vars


\* ------------------------------------------------------------ claims: atomicity
\* connection c has consumed a token and has not yet finalized or rolled back
Unsettled(c) == stack[c] # << >> /\ stack[c][1].k \in {"C", "F"}

\* tokens of user u that are consumed and either not yet written or to be
\* rolled back
PendingTokens(u) ==
  Cardinality({c \in Users :
                 /\ Unsettled(c)
                 /\ stack[c][1].u = u
                 /\ (stack[c][1].k = "F" => ~stack[c][1].placed)})

\* C25: from the consume to the rollback or the statistics of one placement
\* (single path or one bulk iteration) the connection keeps the event loop:
\* no other connection and no clock step runs in between, every
\* change to a bag or a pixel map in between is the placement's own, and so
\* every token is spent once: the bag of a user with two connections is never
\* negative and is its starting value plus the refills minus the pixels
\* written and the tokens in flight.
C25_PlacementAtomic ==
  /\ [](\A c \in Users : Unsettled(c) => turn = c)
  /\ [](Cardinality({c \in Users : Unsettled(c)}) <= 1)
  /\ [][\A c \in Users : Unsettled(c) =>
          /\ stack'[c] # stack[c]
          /\ \A d \in Users \ {c} : stack'[d] = stack[d]
          /\ now' = now]_vars
  /\ [](\A u \in Users :
          /\ auth_users[u].pixel_bag_size >= 0
          /\ auth_users[u].pixel_bag_size =
               initial[u] + granted[u] - written[u] - PendingTokens(u))

\* with one token in the bag, one connection of the user wrote a pixel with it
\* and the other connection was refused
C25_OneTokenOneWrite ==
  /\ initial[SameUser] = 1
  /\ granted[SameUser] = 0
  /\ written[SameUser] = 1
  /\ \E c, d \in Users :
       /\ c # d
       /\ result[c] = "True"
       /\ result[d] = "False"
       /\ attempt.outcome = "empty"


\* ------------------------------------------------------------ claims: the canvas store
\* connection c is at its await of CanvasService.place_pixel, and this step is
\* that call
PlacingAt(c) == stack[c] # << >> /\ stack[c][1].k = "C" /\ canvas_place(c)

\* C26: for numeric (x, y) with x or y outside [0, CANVAS_SIZE),
\* is_valid_position is False and CanvasService.place_pixel returns False and
\* changes nothing: every region map, the total pixel count and the queue of
\* pixels to persist are as before the call.
C26_OutOfRangeRejected ==
  [][\A c \in Users :
       (/\ PlacingAt(c)
        /\ stack[c][1].x # Malformed /\ stack[c][1].y # Malformed
        /\ \/ stack[c][1].x < 0 \/ stack[c][1].x >= CANVAS_SIZE
           \/ stack[c][1].y < 0 \/ stack[c][1].y >= CANVAS_SIZE)
       => /\ ~is_valid_position(stack[c][1].x, stack[c][1].y)
          /\ stack'[c][1].k = "F"
          /\ stack'[c][1].outcome = "false"
          /\ regions' = regions
          /\ get_total_pixels(regions') = get_total_pixels(regions)
          /\ pending_pixels' = pending_pixels
          /\ nwrites' = nwrites]_vars

\* a placement at x = CANVAS_SIZE was refused on a canvas that holds a pixel,
\* with that pixel queued for persistence
C26_RefusedAtTheEdge ==
  /\ get_total_pixels(regions) = 1
  /\ pending_pixels = 1
  /\ \E c \in Users :
       /\ stack[c] # << >>
       /\ stack[c][1].k = "F"
       /\ stack[c][1].x = CANVAS_SIZE
       /\ stack[c][1].outcome = "false"

\* C27: CanvasService.place_pixel never raises to its caller: every call ends
\* with True or False.
C27_PlaceNeverRaises ==
  \A c \in Users :
    (stack[c] # << >> /\ stack[c][1].k = "F") => stack[c][1].outcome # "raise"


\* region coordinates outside the 16 x 16 grid
OutOfGridRegions ==
  {<<REGIONS_PER_SIDE, 0>>, <<0, REGIONS_PER_SIDE>>, <<-1, 0>>, <<0, -1>>}

\* this step is a call of CanvasService.place_pixel by c that returns True
WritingAt(c) == PlacingAt(c) /\ stack'[c][1].outcome = "true"

\* C28: get_region_data round-trips with last-writer-wins. A successful
\* placement at (x, y) leaves, in the data of region (x div REGION_SIZE,
\* y div REGION_SIZE), the colour and the actor of that placement under the
\* local coordinate (x mod REGION_SIZE, y mod REGION_SIZE), and changes no
\* other entry; no other step changes the data of a region; an unpopulated
\* region and a region outside the grid give the empty map.
C28_RegionDataRoundTrip ==
  /\ [](\A r \in ModelRegions :
          regions[r] = << >> => get_region_data(regions, r[1], r[2]) = << >>)
  /\ [](\A r \in OutOfGridRegions : get_region_data(regions, r[1], r[2]) = << >>)
  /\ [][\A c \in Users : WritingAt(c) =>
          LET f == stack[c][1]
              rx == f.x \div REGION_SIZE
              ry == f.y \div REGION_SIZE
              key == ToString(f.x % REGION_SIZE) \o "," \o ToString(f.y % REGION_SIZE)
              before == get_region_data(regions, rx, ry)
              after == get_region_data(regions', rx, ry)
          IN /\ DOMAIN after = DOMAIN before \cup {key}
             /\ after[key] = [color |-> f.color, user_id |-> f.u]
             /\ \A k \in DOMAIN before \ {key} : after[k] = before[k]
             /\ \A r \in ModelRegions \ {<<rx, ry>>} :
                  get_region_data(regions', r[1], r[2])
                    = get_region_data(regions, r[1], r[2])]_vars
  /\ [][(\A c \in Users : ~WritingAt(c)) =>
          \A r \in ModelRegions :
            get_region_data(regions', r[1], r[2])
              = get_region_data(regions, r[1], r[2])]_vars

\* u1 wrote at a coordinate, then u2 wrote blue there, and the region data
\* shows u2's pixel under the local coordinate "4,4"
C28_SecondWriterShown ==
  /\ nwrites = 2
  /\ placements[1].user = "u1"
  /\ placements[2].user = "u2"
  /\ <<placements[1].x, placements[1].y>> = InCenter
  /\ <<placements[2].x, placements[2].y>> = InCenter
  /\ get_region_data(regions, Center[1], Center[2])
       = [k \in {"4,4"} |-> [color |-> Blue, user_id |-> "u2"]]


\* the coordinates written so far by successful placements
WrittenCoordinates ==
  {<<placements[i].x, placements[i].y>> : i \in DOMAIN placements}

\* C29: every record is filed under the region and the local key of its own
\* coordinates, so no two records share a coordinate, and that region lies in
\* the grid; no step (placement, failed placement, subscription, disconnect,
\* write of the queue) removes a record or a region; get_total_pixels is the
\* number of distinct coordinates successfully written.
C29_RecordsFiledAndKept ==
  /\ [](\A r \in DOMAIN regions :
          /\ is_valid_region(r[1], r[2])
          /\ \A l \in DOMAIN regions[r] :
               /\ r = <<regions[r][l].x \div REGION_SIZE,
                        regions[r][l].y \div REGION_SIZE>>
               /\ l = <<regions[r][l].x % REGION_SIZE,
                        regions[r][l].y % REGION_SIZE>>)
  /\ [][\A r \in DOMAIN regions :
          /\ r \in DOMAIN regions'
          /\ DOMAIN regions[r] \subseteq DOMAIN regions'[r]]_vars
  /\ [](get_total_pixels(regions) = Cardinality(WrittenCoordinates))

\* a coordinate is occupied after a write and a later, refused placement, and
\* the writer has disconnected
C29_RecordsOutliveSession ==
  /\ nwrites = 1
  /\ get_total_pixels(regions) = 1
  /\ attempt.outcome = "failed"
  /\ \E h \in Users : hs[h] = "off" /\ written[h] > 0


\* ------------------------------------------------------------ claims: the session copy
\* C30: for a connected user, every step that changes the bag of the user
\* record (a consume, a rollback, a refill) leaves the session object's
\* pixel_bag equal to the record's pixel_bag_size.
C30_SessionBagInSync ==
  [][\A h \in Users :
       (/\ h \in DOMAIN users
        /\ h \in DOMAIN users'
        /\ auth_users'[h].pixel_bag_size # auth_users[h].pixel_bag_size)
       => users'[h].pixel_bag = auth_users'[h].pixel_bag_size]_vars


\* ------------------------------------------------------------ claims: the region grid
\* C31: every region key in a session's subscription set, every key of
\* region_connections and every session's current region lies within
\* [0, REGIONS_PER_SIDE) x [0, REGIONS_PER_SIDE).
C31_RegionKeysInGrid ==
  /\ \A u \in DOMAIN user_regions :
       \A r \in user_regions[u] : is_valid_region(r[1], r[2])
  /\ \A r \in DOMAIN region_connections : is_valid_region(r[1], r[2])
  /\ \A u \in DOMAIN users :
       is_valid_region(users[u].current_region[1], users[u].current_region[2])


\* ------------------------------------------------------------ claims: the user record
\* C32: a refill call for a user without a refill anchor sets the anchor to
\* the time of the call, returns a grant of 0 and leaves pixel_bag_size (and
\* the rest of the record) unchanged; a refill call for an unknown user
\* returns 0 and changes no record. Either call returns: it does not raise.
C32_FirstRefillInitializesAnchor ==
  [][\A username \in Users \cup {Unknown} :
       refill_call(username) =>
         /\ attempt'.outcome = "returned"
         /\ username \notin DOMAIN auth_users =>
              attempt'.bag = 0 /\ auth_users' = auth_users /\ granted' = granted
         /\ (username \in DOMAIN auth_users
             /\ auth_users[username].last_bag_refill_at = NoTime) =>
              /\ attempt'.bag = 0
              /\ granted' = granted
              /\ auth_users' = [auth_users EXCEPT
                                  ![username].last_bag_refill_at = now]]_vars

\* a user without an anchor was first touched at second 4, below the ceiling,
\* and a call three seconds later granted one pixel from that anchor
C32_FirstTouchThenGrant ==
  /\ now = 7
  /\ attempt.path = "refill"
  /\ attempt.user = "u1"
  /\ attempt.bag = 1
  /\ granted["u1"] = 1
  /\ auth_users["u1"].last_bag_refill_at = 7
  /\ auth_users["u1"].pixel_bag_size = initial["u1"] + 1


\* C33: every step that raises a user's level because the experience reached
\* the threshold raises max_pixel_bag_size and sets pixel_bag_size to the new
\* max_pixel_bag_size, and both thresholds grow with the level.
C33_LevelUpRefillsBag ==
  /\ [](\A level \in 1..4 :
          /\ required_xp(level) < required_xp(level + 1)
          /\ xp_required_for(level) < xp_required_for(level + 1))
  /\ [][\A u \in Users :
          auth_users'[u].user_level > auth_users[u].user_level =>
            /\ auth_users'[u].max_pixel_bag_size > auth_users[u].max_pixel_bag_size
            /\ auth_users'[u].pixel_bag_size = auth_users'[u].max_pixel_bag_size]_vars


\* C38: the calls that change the bag outside the placement paths (admin
\* updates of pixel_bag_size and max_pixel_bag_size, the level-up reward, the
\* loot-box upgrade) keep 0 <= pixel_bag_size <= max_pixel_bag_size, and so a
\* refill never lowers pixel_bag_size and never returns a negative grant.
C38_BagBoundsOutsidePlacement ==
  /\ [](\A u \in Users :
          /\ 0 <= auth_users[u].pixel_bag_size
          /\ auth_users[u].pixel_bag_size <= auth_users[u].max_pixel_bag_size)
  /\ [][\A username \in Users :
          refill_call(username) =>
            /\ auth_users'[username].pixel_bag_size
                 >= auth_users[username].pixel_bag_size
            /\ attempt'.bag >= 0]_vars


\* ------------------------------------------------------------ claims: ownership of the bag
\* the bag fields of a user record
BagFields(u) ==
  <<auth_users[u].pixel_bag_size, auth_users[u].max_pixel_bag_size,
    auth_users[u].last_bag_refill_at>>

\* C34: a step taken for one user (a refill, a single placement, a bulk
\* iteration, a rollback) leaves the pixel_bag_size, max_pixel_bag_size and
\* refill anchor of every other user as they were; with two users placing at
\* the same time each bag is its own starting value plus its own refills
\* minus its own writes, each bulk loop counts and collects its own writes
\* only, and a coordinate both wrote holds the later write.
C34_BagOwnedByItsUser ==
  /\ [][\A b \in Users :
          BagFields(b)' # BagFields(b) =>
            /\ stack'[b] # stack[b]
            /\ \A a \in Users \ {b} : stack'[a] = stack[a]]_vars
  /\ [](\A u \in Users :
          /\ auth_users[u].pixel_bag_size = initial[u] + granted[u] - written[u]
          /\ auth_users[u].total_pixels_placed = written[u]
          /\ \A i \in DOMAIN stack[u] :
               stack[u][i].k = "K" =>
                 /\ stack[u][i].placed = Len(stack[u][i].batch)
                 /\ stack[u][i].placed <= stack[u][i].attempted
                 /\ stack[u][i].placed <= written[u]
                 /\ \A j \in DOMAIN stack[u][i].batch :
                      stack[u][i].batch[j].user_id = u)
  /\ [](nwrites > 0 =>
          LET last == placements[nwrites].user
              l == <<InCenter[1] % REGION_SIZE, InCenter[2] % REGION_SIZE>>
          IN /\ regions[Center][l].user_id = last
             /\ regions[Center][l].color = ColourOf(last))

\* two bulk loops ran pixel by pixel in turns: u1 wrote, then u2, then u1
\* again, and the coordinate holds u1's colour
C34_BulksInterleaved ==
  /\ nwrites = 3
  /\ \A i \in 1..3 : placements[i].path = "bulk"
  /\ placements[1].user = "u1"
  /\ placements[2].user = "u2"
  /\ placements[3].user = "u1"
  /\ written["u1"] = 2
  /\ written["u2"] = 1
  /\ regions[Center][<<4, 4>>].color = Red


\* ------------------------------------------------------------ claims: the bus maps
\* no handler is in the middle of a call
Quiescent == \A h \in Users : stack[h] = << >>

\* C35: between calls region_connections and user_regions are mutual
\* inverses (s is in region_connections[r] exactly when r is in
\* user_regions[s]) and hold registered sessions only.
C35_BusMapsInverse ==
  Quiescent =>
    /\ \A r \in DOMAIN region_connections :
         \A s \in region_connections[r] :
           /\ s \in DOMAIN users
           /\ s \in DOMAIN user_regions
           /\ r \in user_regions[s]
    /\ \A s \in DOMAIN user_regions :
         /\ s \in DOMAIN users
         /\ \A r \in user_regions[s] :
              /\ r \in DOMAIN region_connections
              /\ s \in region_connections[r]


\* C36: disconnect_user runs to its end without raising, whatever nested
\* disconnect_user calls its leave notifications set off: no step of its loop
\* finds a region key missing from region_connections, its final del finds
\* the user's entry in user_regions, and when it has finished the user is
\* in no subscriber set, has no entry in user_regions and is not registered.
C36_DisconnectCompletes ==
  [][\A h \in Users :
       (stack[h] # << >> /\ stack[h][1].k = "D"
        /\ (disconnect_user(h) \/ disconnect_finish(h)))
       => LET f == stack[h][1] IN
            /\ f.todo \subseteq DOMAIN region_connections
            /\ (f.todo = {} /\ f.tracked) => f.u \in DOMAIN user_regions
            /\ f.todo = {} =>
                 /\ f.u \notin DOMAIN users'
                 /\ f.u \notin DOMAIN user_regions'
                 /\ \A r \in DOMAIN region_connections :
                      f.u \notin region_connections'[r]]_vars

\* ------------------------------------------------------------ two websockets
\* SpecTwin: two websockets that authenticate as the same user. Here the
\* elements of Users name the websockets (hs, alive, inbox are per websocket)
\* and every map of the bus is keyed by the one user id, SameUser; the User
\* object of the user service keeps the websocket it was built with. No other
\* user is connected, so join and leave notifications reach nobody and
\* connect_user and disconnect_user have no suspension point but the send of
\* the region data.

\* the User object built by connect_user
SessionUser(websocket) ==
  [current_region |-> Center, pixel_bag |-> INITIAL_PIXEL_BAG,
   websocket |-> websocket]

\* RegionManager.disconnect_user(u) with nobody else to notify: the maps after
DisconnectedMaps(u) ==
  IF u \notin DOMAIN users
  THEN [rc |-> region_connections, ur |-> user_regions, us |-> users]
  ELSE [rc |-> IF u \in DOMAIN user_regions
               THEN [r \in DOMAIN region_connections |->
                       IF r \in user_regions[u]
                       THEN region_connections[r] \ {u}
                       ELSE region_connections[r]]
               ELSE region_connections,
        ur |-> Without(user_regions, u),
        us |-> Without(users, u)]

\* websocket_endpoint of websocket c for user u, from the refill tick before
\* auth_success to the end of connect_user
endpoint_connect(c, u) ==
  /\ turn = None
  /\ hs[c] = "new"
  /\ ops < MaxTwinOps
  /\ ops' = ops + 1
  /\ alive' = [alive EXCEPT ![c] = TRUE]
  /\ hs' = [hs EXCEPT ![c] = "on"]
  /\ auth_users' = Refilled(u)
  /\ granted' = Granted(u)
  /\ users' = With(users, u, SessionUser(c))
  /\ user_regions' = With(user_regions, u, {Center})
  /\ region_connections' = [region_connections EXCEPT ![Center] = @ \cup {u}]
  /\ UNCHANGED <<now, regions, stack, turn, inbox, last_sent, result, nwrites,
                 pending_pixels, written, initial, attempt, placements,
                 subscribed, dirty_users, dirty_flush_task, saves,
                 lifespan, db_errors, saved>>

\* inbound viewport_regions on websocket c: update_user_regions(u, ...)
endpoint_viewport(c, u, visible_regions) ==
  /\ turn = None
  /\ hs[c] = "on"
  /\ alive[c]
  /\ ops < MaxTwinOps
  /\ ops' = ops + 1
  /\ IF u \notin DOMAIN users
     THEN UNCHANGED <<region_connections, user_regions, users>>
     ELSE LET new_regions == {visible_regions[i] : i \in DOMAIN visible_regions}
              current_regions ==
                IF u \in DOMAIN user_regions THEN user_regions[u] ELSE {}
              regions_to_add == new_regions \ current_regions
              regions_to_remove == current_regions \ new_regions
          IN /\ region_connections' =
                  [r \in DOMAIN region_connections |->
                     IF r \in regions_to_remove THEN region_connections[r] \ {u}
                     ELSE IF r \in regions_to_add
                     THEN region_connections[r] \cup {u}
                     ELSE region_connections[r]]
             /\ user_regions' = With(user_regions, u, new_regions)
             /\ users' = IF visible_regions # << >>
                         THEN [users EXCEPT ![u].current_region = visible_regions[1]]
                         ELSE users
  /\ UNCHANGED <<now, auth_users, regions, alive, hs, stack, turn, inbox,
                 last_sent, result, nwrites, pending_pixels, granted, written,
                 initial, attempt, placements, subscribed,
                 dirty_users, dirty_flush_task, saves,
                 lifespan, db_errors, saved>>

\* receive_text of websocket c raises WebSocketDisconnect: the except clause
\* calls disconnect_user(u), and websocket_endpoint ends
endpoint_disconnect(c, u) ==
  /\ turn = None
  /\ hs[c] = "on"
  /\ ~alive[c]
  /\ hs' = [hs EXCEPT ![c] = "off"]
  /\ region_connections' = DisconnectedMaps(u).rc
  /\ user_regions' = DisconnectedMaps(u).ur
  /\ users' = DisconnectedMaps(u).us
  /\ UNCHANGED <<now, auth_users, regions, alive, stack, turn, inbox,
                 last_sent, result, ops, nwrites, pending_pixels, granted,
                 written, initial, attempt, placements, subscribed,
                 dirty_users, dirty_flush_task, saves,
                 lifespan, db_errors, saved>>

\* the client of a closed websocket opens a new one
reopen(c) ==
  /\ turn = None
  /\ hs[c] = "off"
  /\ ops < MaxTwinOps
  /\ hs' = [hs EXCEPT ![c] = "new"]
  /\ UNCHANGED <<now, auth_users, regions, region_connections, user_regions,
                 users, alive, stack, turn, inbox, last_sent, result, ops,
                 nwrites, pending_pixels, granted, written, initial, attempt,
                 placements, subscribed, dirty_users, dirty_flush_task, saves,
                 lifespan, db_errors, saved>>

Published(r) == [type |-> "published", r |-> r]

\* broadcast_to_region(r, message) with send_to_user: the message goes to the
\* websocket of the User object; a failed send disconnects the user
publish(r, u) ==
  /\ turn = None
  /\ ops < MaxTwinOps
  /\ ops' = ops + 1
  /\ IF r \notin DOMAIN region_connections \/ u \notin region_connections[r]
        \/ u \notin DOMAIN users
     THEN UNCHANGED <<region_connections, user_regions, users, inbox>>
     ELSE IF alive[users[u].websocket]
     THEN /\ inbox' = [inbox EXCEPT ![users[u].websocket] =
                         Append(@, Published(r))]
          /\ UNCHANGED <<region_connections, user_regions, users>>
     ELSE /\ region_connections' = DisconnectedMaps(u).rc
          /\ user_regions' = DisconnectedMaps(u).ur
          /\ users' = DisconnectedMaps(u).us
          /\ UNCHANGED inbox
  /\ UNCHANGED <<now, auth_users, regions, alive, hs, stack, turn,
                 last_sent, result, nwrites, pending_pixels, granted, written,
                 initial, attempt, placements, subscribed,
                 dirty_users, dirty_flush_task, saves,
                 lifespan, db_errors, saved>>

\* the model's second region
Neighbour == <<Center[1], Center[2] + 1>>

TwinViewports == {<<Center>>, <<Center, Neighbour>>, <<Neighbour>>}

NextTwin ==
  \/ \E c \in Users :
       \/ endpoint_connect(c, SameUser)
       \/ \E vr \in TwinViewports : endpoint_viewport(c, SameUser, vr)
       \/ Drop(c)
       \/ endpoint_disconnect(c, SameUser)
       \/ reopen(c)
  \/ \E r \in ModelRegions : publish(r, SameUser)

SpecTwin == Init /\ [][NextTwin]_vars

\* the websockets whose client is connected and whose coroutine is in its
\* message loop
LiveConnections == {c \in Users : hs[c] = "on" /\ alive[c]}

\* C37: a connected session stays registered and subscribed. When a websocket
\* connects under a user id that has a live session already, connect_user
\* leaves that user subscribed to the centre region and to no other; and when
\* one of two connections of a user closes, the user is still registered, the
\* maps still hold its regions, and its messages go to the live connection.
C37_LiveSessionStaysSubscribed ==
  [][\A c \in Users :
       /\ (endpoint_connect(c, SameUser) /\ LiveConnections # {})
            => /\ user_regions'[SameUser] = {Center}
               /\ {r \in DOMAIN region_connections' :
                     SameUser \in region_connections'[r]} = {Center}
       /\ endpoint_disconnect(c, SameUser)
            => \A d \in Users :
                 (hs'[d] = "on" /\ alive'[d])
                 => /\ SameUser \in DOMAIN users'
                    /\ users'[SameUser].websocket = d
                    /\ SameUser \in DOMAIN user_regions'
                    /\ \A r \in user_regions'[SameUser] :
                         SameUser \in region_connections'[r]]_vars

\* ------------------------------------------------------------ the canvas queue
\* SpecQueue: the pending queue of CanvasPersistence between initialize and
\* stop, with writes of the canvas file that may fail.

\* CanvasService.place_pixel after the store was written: the service is
\* initialized, so the pixel goes to save_pixel
persist_pixel ==
  /\ turn = None
  /\ lifespan = "up"
  /\ pending_pixels < MaxPending
  /\ \E flushed \in BOOLEAN :
       LET o == save_pixel_outcome(pending_pixels, flushed) IN
         /\ pending_pixels' = o.pending
         /\ db_errors' = db_errors \cup o.printed
  /\ UNCHANGED <<now, auth_users, regions, region_connections, user_regions,
                 users, alive, hs, stack, turn, inbox, last_sent, result, ops,
                 nwrites, granted, written, initial, attempt, placements,
                 subscribed, dirty_users, dirty_flush_task, saves, lifespan,
                 saved>>

\* an iteration of _background_save_loop that finds pixels pending and the
\* save interval over
background_save_loop ==
  /\ turn = None
  /\ lifespan = "up"
  /\ pending_pixels > 0
  /\ \E flushed \in BOOLEAN :
       LET o == flush_pending_pixels_outcome(pending_pixels, flushed) IN
         /\ pending_pixels' = o.pending
         /\ db_errors' = db_errors \cup o.printed
  /\ UNCHANGED <<now, auth_users, regions, region_connections, user_regions,
                 users, alive, hs, stack, turn, inbox, last_sent, result, ops,
                 nwrites, granted, written, initial, attempt, placements,
                 subscribed, dirty_users, dirty_flush_task, saves, lifespan,
                 saved>>

\* CanvasPersistence.stop: the save task is cancelled, then the final flush
stop ==
  /\ turn = None
  /\ lifespan = "up"
  /\ lifespan' = "down"
  /\ \E flushed \in BOOLEAN :
       LET o == flush_pending_pixels_outcome(pending_pixels, flushed) IN
         /\ pending_pixels' = o.pending
         /\ db_errors' = db_errors \cup o.printed
  /\ UNCHANGED <<now, auth_users, regions, region_connections, user_regions,
                 users, alive, hs, stack, turn, inbox, last_sent, result, ops,
                 nwrites, granted, written, initial, attempt, placements,
                 subscribed, dirty_users, dirty_flush_task, saves, saved>>

NextQueue ==
  \/ persist_pixel
  \/ background_save_loop
  \/ stop

SpecQueue == InitBus /\ [][NextQueue]_vars

\* C39: a pixel placed after initialization is appended to the pending queue
\* and stays there until a flush succeeds. A placement adds one to the queue,
\* unless it fills the batch and the flush it forces succeeds; a placement
\* that brings the queue to batch_size or more does force a flush, which
\* either empties the queue or prints its error; a background flush and the
\* final flush of stop() leave the queue either empty or as it was; stop()
\* does flush, emptying the queue or printing the error; and the queue never
\* shrinks except to empty.
C39_QueuedUntilFlushed ==
  [][/\ persist_pixel =>
          \/ pending_pixels' = pending_pixels + 1
          \/ pending_pixels + 1 >= batch_size /\ pending_pixels' = 0
     /\ (persist_pixel /\ pending_pixels + 1 >= batch_size) =>
          \/ pending_pixels' = 0
          \/ pending_pixels' = pending_pixels + 1 /\ FlushError \in db_errors'
     /\ (persist_pixel /\ pending_pixels + 1 < batch_size) =>
          pending_pixels' = pending_pixels + 1
     /\ (background_save_loop \/ stop) =>
          \/ pending_pixels' = 0
          \/ pending_pixels' = pending_pixels /\ FlushError \in db_errors'
     /\ pending_pixels' < pending_pixels => pending_pixels' = 0]_vars

\* the thousandth pixel forced a flush that failed: the error was printed and
\* the full batch is still queued
C39_FullBatchKept ==
  /\ pending_pixels = batch_size
  /\ FlushError \in db_errors
  /\ lifespan = "up"

\* the frames of RegionManager.place_pixel's broadcast loop on a stack
BroadcastLoops(frames) == {i \in DOMAIN frames : frames[i].k = "P"}

\* C40: an update entry is delivered only for a write that was applied to the
\* store, and every accepted single placement is followed by its pixel_update
\* broadcast. Every entry a client was sent carries the number, coordinates
\* and author of a write on record; and the broadcast loop that an accepted
\* single placement starts leaves the handler's stack only when it has gone
\* through every region of its fan-out.
C40_UpdatesFollowWrites ==
  [][/\ \A t \in Users : \A i \in DOMAIN inbox'[t] :
          \A a \in DOMAIN inbox'[t][i].updates :
            LET e == inbox'[t][i].updates[a] IN
              /\ e.wid \in DOMAIN placements'
              /\ e.wid <= nwrites'
              /\ placements'[e.wid].x = e.x
              /\ placements'[e.wid].y = e.y
              /\ placements'[e.wid].user = e.user_id
     /\ \A h \in Users :
          (BroadcastLoops(stack[h]) # {} /\ BroadcastLoops(stack'[h]) = {})
          => \A i \in BroadcastLoops(stack[h]) : stack[h][i].todo = {}]_vars

=============================================================================
